---- MODULE Spec2Model ----
(***************************************************************************)
(* Model of the Mahana MCP server's tool-dispatch route                    *)
(* (src/src/app/api/mcp/[transport]/route.ts).                             *)
(*                                                                         *)
(* One MCP tool call is one invocation.  An invocation is admitted by the  *)
(* exported route handler, validated against the tool's zod schema and     *)
(* then runs the tool's handler.  A handler runs from one await to the     *)
(* next in one step; every await is one outbound call (a Supabase request  *)
(* or an HTTP fetch) whose outcome the collaborator chooses.               *)
(*                                                                         *)
(* A text is modelled as a record: JSON.stringify(v) is                    *)
(* [fmt |-> "json", value |-> v]; a template string is                     *)
(* [fmt |-> "str", parts |-> <<...>>] with its literal pieces and          *)
(* interpolated values in order (the literal word Error is its own piece). *)
(***************************************************************************)
EXTENDS Naturals, Integers, Sequences, FiniteSets, TLC

(* ---------------------------------------------------------------------- *)
(* Bounds                                                                  *)
(* ---------------------------------------------------------------------- *)
MaxInvocations == 2

Procs == {1, 2}

(* ---------------------------------------------------------------------- *)
(* Input domains                                                           *)
(* ---------------------------------------------------------------------- *)
Secret == "S"

Credentials == {"none", "S", "wrong"}

Keys == {"k1", "k2"}

KeyOrder == <<"k1", "k2">>

Values == {"v1", "v2"}

SessionIds == {"term-1", "claude-1"}

SessionOrder == <<"term-1", "claude-1">>

Commands == {"ls", " ls "}

Bodies == {"import { x } from 'y'", "{}"}

JSONDocuments == {"{}"}

Undefined == "undefined"

(* A JSON number sent where the schema asks for a string; the model keeps *)
(* it apart from every string by this reserved token.                     *)
NumberOnWire == "<number 7>"

NoLimit == -1

(* Collaborator outcomes of one outbound call. *)
DbOutcomes == {"ok", "error", "throw", "throw_value"}

HttpJsonOutcomes == {"ok", "ok_empty", "non2xx", "throw", "bad_json"}

HttpTextOutcomes == {"ok", "non2xx", "throw"}

(* ---------------------------------------------------------------------- *)
(* Strings                                                                 *)
(* ---------------------------------------------------------------------- *)
StringOrder == <<"c1", "general", "k1", "k2", "v1", "v2">>

RECURSIVE IndexOf(_, _, _)
IndexOf(seq, v, i) ==
    IF i > Len(seq) THEN 0
    ELSE IF seq[i] = v THEN i ELSE IndexOf(seq, v, i + 1)

(* String comparison as the database performs it on the model's literals. *)
StrLess(a, b) == IndexOf(StringOrder, a, 1) < IndexOf(StringOrder, b, 1)

(* The command stored as typed, surrounding whitespace included. *)
NoTrim(s) == s

(* String.prototype.trim on the model's commands. *)
Trim(s) == IF s = " ls " THEN "ls" ELSE s

(* JavaScript truthiness of an optional string argument. *)
Truthy(s) == s # Undefined /\ s # ""

(* String(v) in place of JSON.stringify(v). *)
StringOf(v) == [fmt |-> "str", parts |-> <<"[object Object]">>]

JSONstringify(v) == [fmt |-> "json", value |-> v]

Template(parts) == [fmt |-> "str", parts |-> parts]

(* JSON.parse succeeds on a text. *)
ParsesAsJSON(text) ==
    \/ text.fmt = "json"
    \/ /\ text.fmt = "str"
       /\ Len(text.parts) = 1
       /\ text.parts[1] \in JSONDocuments

ContainsWordError(text) ==
    /\ text.fmt = "str"
    /\ \E i \in 1..Len(text.parts) : text.parts[i] = "Error"

(* ---------------------------------------------------------------------- *)
(* Response envelopes                                                      *)
(* ---------------------------------------------------------------------- *)
SuccessEnvelope(text) == [content |-> <<[type |-> "text", text |-> text]>>]

ErrorEnvelope(text) ==
    [content |-> <<[type |-> "text", text |-> text]>>, isError |-> TRUE]

IsErrorEnv(e) == "isError" \in DOMAIN e /\ e.isError = TRUE

TextOf(e) == e.content[1].text

(* A thrown value: an Error instance with a message, or any other value. *)
ErrorInstance(m) == [instance |-> TRUE, message |-> m]

ThrownValue == [instance |-> FALSE, message |-> "not-an-error"]

ExcOf(outcome) ==
    IF outcome = "throw_value" THEN ThrownValue ELSE ErrorInstance("fetch failed")

(* err instanceof Error ? err.message : 'Unknown error' *)
ErrMessage(exc) == IF exc.instance THEN exc.message ELSE "Unknown error"

(* A catch block that returns the bare message. *)
CatchEnvelopeBare(exc) == ErrorEnvelope(Template(<<ErrMessage(exc)>>))

(* The catch block shared by the database tools. *)
CatchEnvelope(exc) == ErrorEnvelope(Template(<<"Error", ": ", ErrMessage(exc)>>))

(* The catch block of the toolkit tools: `Error fetching <what>: <message>`. *)
CatchFetchEnvelope(what, exc) ==
    ErrorEnvelope(Template(<<"Error", " fetching " \o what \o ": ", ErrMessage(exc)>>))

(* The `if (error)` branch: `Error<doing>: <error.message>`. *)
ErrorFieldEnvelope(doing, message) ==
    IF doing = ""
    THEN ErrorEnvelope(Template(<<"Error", ": ", message>>))
    ELSE ErrorEnvelope(Template(<<"Error", " " \o doing \o ": ", message>>))

(* data?.length || 1 *)
LengthOrOne(res) == IF res.hasData /\ Len(res.data) > 0 THEN Len(res.data) ELSE 1

(* data?.length || 0 *)
LengthOrZero(res) == IF res.hasData THEN Len(res.data) ELSE 0

(* ---------------------------------------------------------------------- *)
(* State                                                                   *)
(* ---------------------------------------------------------------------- *)
VARIABLES
    config,                 \* process.env: Supabase URL/key, API secret, toolkit URL
    agent_memory,           \* external table agent_memory, unique on key
    terminal_sessions,      \* external table terminal_sessions, primary key id
    voice_messages_tasks,   \* external table voice_messages_tasks, serial id
    inv,                    \* the invocation running in each request slot
    started,                \* number of requests received so far
    lastStored              \* per key: value of the last successful store_memory
                            \* not followed by another write to that key

vars == <<config, agent_memory, terminal_sessions, voice_messages_tasks,
          inv, started, lastStored>>

db == <<agent_memory, terminal_sessions, voice_messages_tasks>>

NoMemory == [present |-> FALSE, key |-> "", value |-> "", category |-> ""]

NoSession ==
    [present |-> FALSE, id |-> "", name |-> "", agent_type |-> "",
     status |-> "", is_focused |-> FALSE]

Idle ==
    [pc |-> "idle", tool |-> "", args |-> <<>>, cred |-> "", http |-> 0,
     calls |-> <<>>, out |-> <<>>, escaped |-> FALSE, local |-> <<>>]

(* ---------------------------------------------------------------------- *)
(* The database collaborator (PostgREST through supabase-js)               *)
(* ---------------------------------------------------------------------- *)
OkRes(rows) == [hasData |-> TRUE, data |-> rows, hasError |-> FALSE, message |-> ""]

(* A write without .select(): data is null and error is null. *)
NoDataRes == [hasData |-> FALSE, data |-> <<>>, hasError |-> FALSE, message |-> ""]

ErrRes(m) == [hasData |-> FALSE, data |-> <<>>, hasError |-> TRUE, message |-> m]

(* .single(): exactly one row, otherwise an error and no data. *)
Single(res) ==
    IF res.hasError THEN res
    ELSE IF Len(res.data) = 1 THEN res
    ELSE ErrRes("JSON object requested, multiple (or no) rows returned")

(* .limit(n) *)
Limit(rows, n) ==
    IF n = NoLimit \/ n >= Len(rows) THEN rows
    ELSE IF n <= 0 THEN <<>> ELSE SubSeq(rows, 1, n)

(* One filter clause, compared by the database. *)
Cmp(operator, a, b) ==
    CASE operator = "eq"    -> a = b
      [] operator = "neq"   -> a # b
      [] operator = "gt"    -> StrLess(b, a)
      [] operator = "gte"   -> a = b \/ StrLess(b, a)
      [] operator = "lt"    -> StrLess(a, b)
      [] operator = "lte"   -> a = b \/ StrLess(a, b)
      [] operator = "like"  -> a = b
      [] operator = "ilike" -> a = b
      [] OTHER              -> FALSE

RowMatches(row, filters) ==
    \A i \in 1..Len(filters) :
        Cmp(filters[i].operator, row[filters[i].column], filters[i].value)

Clause(column, operator, value) ==
    [column |-> column, operator |-> operator, value |-> value]

MemoryRow(r) == [key |-> r.key, value |-> r.value, category |-> r.category]

(* Rows of agent_memory matching the filters, in table order. *)
MemoryRows(mem, filters) ==
    LET all == [i \in 1..Len(KeyOrder) |-> mem[KeyOrder[i]]]
        hit == SelectSeq(all, LAMBDA r : r.present /\ RowMatches(MemoryRow(r), filters))
    IN  [i \in 1..Len(hit) |-> MemoryRow(hit[i])]

SessionRow(r) ==
    [id |-> r.id, name |-> r.name, agent_type |-> r.agent_type,
     status |-> r.status, is_focused |-> r.is_focused]

SessionRows(ses, filters) ==
    LET all == [i \in 1..Len(SessionOrder) |-> ses[SessionOrder[i]]]
        hit == SelectSeq(all, LAMBDA r : r.present /\ RowMatches(SessionRow(r), filters))
    IN  [i \in 1..Len(hit) |-> SessionRow(hit[i])]

TaskRows(tsk, filters) == SelectSeq(tsk, LAMBDA r : RowMatches(r, filters))

RECURSIVE Reverse(_)
Reverse(s) == IF s = <<>> THEN <<>> ELSE Append(Reverse(Tail(s)), Head(s))

(* The record of one outbound call, as the invocation's log keeps it. *)
DbCall(table, op, filters, limit, payload, outcome) ==
    [kind |-> "db", table |-> table, op |-> op, filters |-> filters,
     limit |-> limit, payload |-> payload, outcome |-> outcome]

HttpCall(url, outcome) == [kind |-> "http", url |-> url, outcome |-> outcome]

(* ---------------------------------------------------------------------- *)
(* Configuration and admission                                             *)
(* ---------------------------------------------------------------------- *)
CredentialsError == ErrorInstance("Supabase credentials not configured")

(* `!url && !key` in place of `!url || !key`. *)
getSupabaseThrowsIfBothUnset == ~config.supabaseUrl /\ ~config.supabaseKey

(* getSupabase throws when the URL or the service-role key is unset. *)
getSupabaseThrows == ~config.supabaseUrl \/ ~config.supabaseKey

(* The base URL read off the environment with no fallback. *)
TOOLKIT_BASE_URL_NoFallback == config.toolkitUrl

(* process.env.TOOLKIT_BASE_URL || 'https://mahana-mapper.vercel.app' *)
TOOLKIT_BASE_URL ==
    IF config.toolkitUrl # Undefined /\ config.toolkitUrl # ""
    THEN config.toolkitUrl ELSE "https://mahana-mapper.vercel.app"

(* The options handed to createMcpHandler: redisUrl only when REDIS_URL is set. *)
HandlerOptions ==
    IF Truthy(config.redisUrl)
    THEN [redisUrl |-> config.redisUrl, basePath |-> "/api/mcp"]
    ELSE [basePath |-> "/api/mcp"]

(* A gate that compares the credential with the secret even when unset. *)
ForwardedIfEqual(secret, cred) == cred = secret

(* The route exports the MCP handler itself as GET and POST: every request *)
(* reaches tool dispatch, whatever the configured secret and credential.   *)
Forwarded(secret, cred) == TRUE

FilterOperatorsQuery == {"eq", "neq", "gt", "gte", "lt", "lte", "like", "ilike"}

(* The write tools given the enum of supabase_query. *)
FilterOperatorsWriteAll == {"eq", "neq", "gt", "gte", "lt", "lte", "like", "ilike"}

(* z.enum of the filter of supabase_update and supabase_delete. *)
FilterOperatorsWrite == {"eq", "neq", "gt", "gte", "lt", "lte"}

Has(a, f) == f \in DOMAIN a

Arg(a, f, default) == IF f \in DOMAIN a THEN a[f] ELSE default

ValidFilter(f, operators) ==
    /\ DOMAIN f = {"column", "operator", "value"}
    /\ f.operator \in operators

Required(a, fields) == \A f \in fields : Has(a, f)

(* z.string() *)
IsString(v) == v # NumberOnWire

(* A schema without its type checks: presence is all it asks for. *)
RequiredStringUntyped(a, fields) == \A f \in fields : Has(a, f)

(* Required fields declared z.string(). *)
RequiredString(a, fields) == \A f \in fields : Has(a, f) /\ IsString(a[f])

OptionalEnum(a, f, members) == Has(a, f) => a[f] \in members

(* The zod schema of each tool, checked before the handler runs. *)
ValidInput(tool, a) ==
    CASE tool = "supabase_query" ->
            /\ RequiredString(a, {"table"})
            /\ Has(a, "filter") => ValidFilter(a.filter, FilterOperatorsQuery)
      [] tool = "supabase_insert" ->
            RequiredString(a, {"table"}) /\ Required(a, {"data"})
      [] tool = "supabase_update" ->
            /\ RequiredString(a, {"table"})
            /\ Required(a, {"data", "filter"})
            /\ ValidFilter(a.filter, FilterOperatorsWrite)
      [] tool = "supabase_delete" ->
            /\ RequiredString(a, {"table"})
            /\ Required(a, {"filter"})
            /\ ValidFilter(a.filter, FilterOperatorsWrite)
      [] tool = "run_terminal_command" -> RequiredString(a, {"command"})
      [] tool = "check_command_status" -> Required(a, {"task_id"})
      [] tool = "get_recent_commands" ->
            OptionalEnum(a, "status", {"completed", "failed", "all"})
      [] tool = "create_terminal_session" ->
            /\ RequiredString(a, {"name"})
            /\ OptionalEnum(a, "agent_type", {"claude-code", "shell", "npm", "custom"})
      [] tool = "list_terminal_sessions" ->
            OptionalEnum(a, "status", {"active", "pending", "closed", "all"})
      [] tool = "switch_terminal_session" -> RequiredString(a, {"session_id"})
      [] tool = "close_terminal_session" -> RequiredString(a, {"session_id"})
      [] tool = "start_claude_agent" ->
            /\ RequiredString(a, {"name"})
            /\ OptionalEnum(a, "model", {"sonnet", "opus", "haiku"})
      [] tool = "send_to_claude_agent" -> RequiredString(a, {"session_id", "message"})
      [] tool = "get_claude_agent_status" -> RequiredString(a, {"session_id"})
      [] tool = "store_memory" -> RequiredString(a, {"key", "value"})
      [] tool = "get_system_toolkit" ->
            OptionalEnum(a, "section",
                {"apis", "cli", "imports", "supabase", "costs", "transforms",
                 "pipeline_stages", "presets", "data_paths", "env_vars", "all"})
      [] tool = "get_callable_commands" -> OptionalEnum(a, "format", {"markdown", "json"})
      [] tool = "get_import_statements" -> OptionalEnum(a, "format", {"typescript", "json"})
      [] tool = "get_cli_reference" ->
            OptionalEnum(a, "category", {"pipeline", "batch", "synthesis", "utility", "all"})
      [] tool = "lookup_data_path" ->
            /\ RequiredString(a, {"type"})
            /\ a.type \in {"golden_records", "scraped_data", "text_corpus", "embeddings",
                           "all_images", "brreg_data", "musicians", "dossiers"}
      [] OTHER -> TRUE

DatabaseTools ==
    {"supabase_query", "supabase_insert", "supabase_update", "supabase_delete",
     "run_terminal_command", "check_command_status", "get_pending_commands",
     "get_recent_commands", "create_terminal_session", "list_terminal_sessions",
     "switch_terminal_session", "close_terminal_session", "start_claude_agent",
     "send_to_claude_agent", "get_claude_agent_status", "list_claude_agents",
     "store_memory", "recall_memory"}

ToolkitTools ==
    {"get_system_toolkit", "get_callable_commands", "get_import_statements",
     "get_api_reference", "get_cli_reference", "get_cost_reference",
     "get_pipeline_reference", "lookup_data_path"}

Tools == {"get_current_time"} \cup DatabaseTools \cup ToolkitTools

(* ---------------------------------------------------------------------- *)
(* Inputs of a tool call: well-formed ones and a few the schema rejects    *)
(* ---------------------------------------------------------------------- *)
NoArgs == [f \in {} |-> ""]

Times == {999, 1000, 61001}

ArgsOf(tool) ==
    CASE tool = "supabase_query" ->
            {[table |-> "agent_memory"],
             [table |-> "agent_memory", limit |-> 1],
             [table |-> "agent_memory", limit |-> 1,
              filter |-> Clause("key", "gte", "k1")],
             [table |-> "agent_memory", filter |-> Clause("category", "ilike", "c1")],
             [table |-> "agent_memory", filter |-> Clause("key", "regex", "k1")]}
      [] tool = "supabase_insert" ->
            {[table |-> "agent_memory",
              data |-> [key |-> "k2", value |-> "v2", category |-> "c1"]],
             [data |-> [key |-> "k2", value |-> "v2", category |-> "c1"]]}
      [] tool = "supabase_update" ->
            {[table |-> "agent_memory", data |-> [value |-> "v2"],
              filter |-> Clause("key", "eq", "k1")],
             [table |-> "agent_memory", data |-> [value |-> "v2"],
              filter |-> Clause("key", "like", "k1")]}
      [] tool = "supabase_delete" ->
            {[table |-> "agent_memory", filter |-> Clause("key", "neq", "k2")],
             [table |-> "agent_memory", filter |-> Clause("key", "ilike", "k1")]}
      [] tool = "run_terminal_command" ->
            {[command |-> c] : c \in Commands} \cup {NoArgs, [command |-> NumberOnWire]}
      [] tool = "check_command_status" -> {[task_id |-> 1], [task_id |-> 4], NoArgs}
      [] tool = "get_pending_commands" -> {NoArgs, [limit |-> 1]}
      [] tool = "get_recent_commands" -> {NoArgs, [status |-> "completed"]}
      [] tool = "create_terminal_session" ->
            {[name |-> "n"], [name |-> "n", agent_type |-> "claude-code"]}
      [] tool = "list_terminal_sessions" -> {NoArgs, [status |-> "all"]}
      [] tool = "switch_terminal_session" ->
            {[session_id |-> i] : i \in SessionIds} \cup {[session_id |-> NumberOnWire]}
      [] tool = "close_terminal_session" -> {[session_id |-> i] : i \in SessionIds}
      [] tool = "start_claude_agent" ->
            {[name |-> "n"], [name |-> "n", model |-> "opus", initial_prompt |-> "go"]}
      [] tool = "send_to_claude_agent" ->
            {[session_id |-> i, message |-> "hi"] : i \in SessionIds}
      [] tool = "get_claude_agent_status" -> {[session_id |-> i] : i \in SessionIds}
      [] tool = "store_memory" ->
            {[key |-> k, value |-> v] : k \in Keys, v \in Values}
                \cup {[key |-> "k1", value |-> "v1", category |-> "c1"],
                      [key |-> "k2", value |-> "v2", category |-> ""]}
                \cup {[value |-> "v1"], [key |-> NumberOnWire, value |-> "v1"]}
      [] tool = "recall_memory" ->
            {NoArgs, [key |-> "k1"], [key |-> "k2"], [key |-> ""],
             [key |-> "k1", category |-> "c1"]}
      [] tool = "get_system_toolkit" -> {NoArgs, [section |-> "cli"]}
      [] tool = "get_callable_commands" -> {NoArgs, [format |-> "json"]}
      [] tool = "get_import_statements" -> {NoArgs, [format |-> "typescript"]}
      [] tool = "get_cli_reference" -> {NoArgs, [category |-> "pipeline"]}
      [] tool = "lookup_data_path" -> {[type |-> "golden_records"], NoArgs}
      [] OTHER -> {NoArgs}

(* ---------------------------------------------------------------------- *)
(* Invocation bookkeeping                                                  *)
(* ---------------------------------------------------------------------- *)
Resting == {"idle", "done", "invalid", "unauthorized"}

Running(p, tool, pc) == inv[p].pc = pc /\ inv[p].tool = tool

(* The handler returns envelope e after issuing the calls cs. *)
Finish(p, cs, e) ==
    inv' = [inv EXCEPT ![p].pc = "done",
                       ![p].calls = @ \o cs,
                       ![p].out = Append(@, e)]

(* The handler awaits its next outbound call at label pc. *)
Continue(p, cs, pc, local) ==
    inv' = [inv EXCEPT ![p].pc = pc, ![p].calls = @ \o cs, ![p].local = local]

(* A handler without its catch block: the exception leaves the handler. *)
Uncaught(p, cs, exc) ==
    inv' = [inv EXCEPT ![p].pc = "done", ![p].calls = @ \o cs, ![p].escaped = TRUE]

(* try { ... } catch (err) { return <error envelope> }: nothing escapes. *)
Caught(p, cs, exc) == Finish(p, cs, CatchEnvelope(exc))

CaughtFetch(p, cs, what, exc) == Finish(p, cs, CatchFetchEnvelope(what, exc))

Throws(o) == o \in {"throw", "throw_value"}

(* The response of a database call the collaborator fails with an error field. *)
Boom == ErrRes("boom")

(* Labels at which a handler is suspended between two of its awaits. *)
Suspended == {"queue", "insert", "touch", "tasks"}

(* A request arrives at the exported GET/POST handler.  A handler runs     *)
(* atomically between awaits and single-call invocations commute, so a     *)
(* second request is admitted only while the first is suspended between    *)
(* two of its outbound calls: that is where an overlap can be observed.    *)
Request(p) ==
    /\ started < MaxInvocations
    /\ inv[p].pc = "idle"
    /\ \A q \in Procs : q < p => inv[q].pc \in Suspended
    /\ \E cred \in Credentials :
         inv' = [inv EXCEPT ![p] =
             IF ~Forwarded(config.apiSecret, cred)
             THEN [Idle EXCEPT !.pc = "unauthorized", !.cred = cred, !.http = 401,
                               !.local = [code |-> -32001]]
             ELSE [Idle EXCEPT !.pc = "dispatch", !.cred = cred]]
    /\ started' = started + 1
    /\ UNCHANGED <<config, db, lastStored>>

(* The MCP handler reads the tool call off the forwarded request and checks *)
(* its arguments against the tool's schema; the tool handler is called     *)
(* with the arguments only, never with the request's headers.              *)
Dispatch(p) ==
    /\ inv[p].pc = "dispatch"
    /\ \E tool \in Tools :
         \E a \in ArgsOf(tool) :
            inv' = [inv EXCEPT ![p] =
                IF ~ValidInput(tool, a)
                THEN [Idle EXCEPT !.pc = "invalid", !.tool = tool, !.args = a, !.http = 200]
                ELSE [Idle EXCEPT !.pc = "handler", !.tool = tool, !.args = a, !.http = 200]]
    /\ UNCHANGED <<config, db, started, lastStored>>

(* A module-level cache that keeps the last invocation's locals and calls. *)
RespondKeepingState(p) ==
    /\ inv[p].pc \in {"done", "invalid", "unauthorized"}
    /\ inv' = [inv EXCEPT ![p] = [Idle EXCEPT !.local = inv[p].local,
                                              !.calls = inv[p].calls]]
    /\ UNCHANGED <<config, db, started, lastStored>>

(* The transport sends the response; the request's state is dropped. *)
Respond(p) ==
    /\ inv[p].pc \in {"done", "invalid", "unauthorized"}
    /\ inv' = [inv EXCEPT ![p] = Idle]
    /\ UNCHANGED <<config, db, started, lastStored>>

(* ---------------------------------------------------------------------- *)
(* Utility tools                                                           *)
(* ---------------------------------------------------------------------- *)
(* Date.prototype.toISOString: whole seconds and the millisecond fraction. *)
toISOString(t) == [seconds |-> t \div 1000, millis |-> t % 1000]

(* Date.parse of an ISO string. *)
DateParse(iso) == iso.seconds * 1000 + iso.millis

(* toLocaleString with timeStyle long: Oslo wall clock, whole seconds. *)
toLocaleString(t) == [timeZone |-> "Europe/Oslo", seconds |-> t \div 1000]

(* Math.round in place of Math.floor. *)
unixRounded(t) == (t + 500) \div 1000

(* Math.floor(now.getTime() / 1000) *)
unix(t) == t \div 1000

get_current_time(p) ==
    /\ Running(p, "get_current_time", "handler")
    /\ \E now \in Times :
         Finish(p, <<>>, SuccessEnvelope(JSONstringify(
            [iso |-> toISOString(now),
             unix |-> unix(now),
             formatted |-> toLocaleString(now)])))
    /\ UNCHANGED <<config, db, started, lastStored>>

(* ---------------------------------------------------------------------- *)
(* Supabase tools                                                          *)
(* ---------------------------------------------------------------------- *)
DefaultQueryLimit == 100

(* A shim that always compares for equality, whatever operator was given. *)
FilterClausesEq(a) ==
    IF Has(a, "filter")
    THEN <<Clause(a.filter.column, "eq", a.filter.value)>>
    ELSE <<>>

(* The filter argument as the clause list of the outgoing request. *)
FilterClauses(a) ==
    IF Has(a, "filter")
    THEN <<Clause(a.filter.column, a.filter.operator, a.filter.value)>>
    ELSE <<>>

(* update(data): the columns named in data replace the row's. *)
Patch(row, data) == [c \in DOMAIN row |-> IF c \in DOMAIN data THEN data[c] ELSE row[c]]

Matching(mem, filters) ==
    {k \in Keys : mem[k].present /\ RowMatches(MemoryRow(mem[k]), filters)}

(* from(table).select(select).limit(limit)[.filter(...)] *)
DbSelect(table, filters, limit) ==
    IF table = "agent_memory"
    THEN [res |-> OkRes(Limit(MemoryRows(agent_memory, filters), limit)),
          mem |-> agent_memory, touched |-> {}]
    ELSE [res |-> ErrRes("relation does not exist"), mem |-> agent_memory, touched |-> {}]

(* from(table).insert(data).select() *)
DbInsert(table, data) ==
    IF table # "agent_memory"
    THEN [res |-> ErrRes("relation does not exist"), mem |-> agent_memory, touched |-> {}]
    ELSE IF agent_memory[data.key].present
    THEN [res |-> ErrRes("duplicate key value violates unique constraint"),
          mem |-> agent_memory, touched |-> {}]
    ELSE [res |-> OkRes(<<data>>),
          mem |-> [agent_memory EXCEPT ![data.key] =
                     [present |-> TRUE, key |-> data.key, value |-> data.value,
                      category |-> data.category]],
          touched |-> {data.key}]

(* from(table).update(data).filter(...).select() *)
DbUpdate(table, data, filters) ==
    IF table # "agent_memory"
    THEN [res |-> ErrRes("relation does not exist"), mem |-> agent_memory, touched |-> {}]
    ELSE LET hit == Matching(agent_memory, filters)
             mem == [k \in Keys |-> IF k \in hit THEN Patch(agent_memory[k], data)
                                    ELSE agent_memory[k]]
         IN  [res |-> OkRes(MemoryRows(mem, filters)), mem |-> mem, touched |-> hit]

(* from(table).delete().filter(...).select() *)
DbDelete(table, filters) ==
    IF table # "agent_memory"
    THEN [res |-> ErrRes("relation does not exist"), mem |-> agent_memory, touched |-> {}]
    ELSE LET hit == Matching(agent_memory, filters)
         IN  [res |-> OkRes(MemoryRows(agent_memory, filters)),
              mem |-> [k \in Keys |-> IF k \in hit THEN NoMemory ELSE agent_memory[k]],
              touched |-> hit]

(* A write to agent_memory that is not a store_memory ends the keys' round trip. *)
Forget(touched) == [k \in Keys |-> IF k \in touched THEN "" ELSE lastStored[k]]

supabase_query(p) ==
    /\ Running(p, "supabase_query", "handler")
    /\ LET a == inv[p].args
           limit == Arg(a, "limit", DefaultQueryLimit)
           filters == FilterClauses(a)
       IN  IF getSupabaseThrows
           THEN Caught(p, <<>>, CredentialsError)
           ELSE \E o \in DbOutcomes :
                  LET call == DbCall(a.table, "select", filters, limit, <<>>, o)
                      res == IF o = "ok" THEN DbSelect(a.table, filters, limit).res ELSE Boom
                  IN  IF Throws(o) THEN Caught(p, <<call>>, ExcOf(o))
                      ELSE IF res.hasError
                      THEN Finish(p, <<call>>, ErrorFieldEnvelope("", res.message))
                      ELSE Finish(p, <<call>>, SuccessEnvelope(JSONstringify(
                              [success |-> TRUE, count |-> LengthOrZero(res),
                               data |-> res.data])))
    /\ UNCHANGED <<config, db, started, lastStored>>

supabase_insert(p) ==
    /\ Running(p, "supabase_insert", "handler")
    /\ LET a == inv[p].args
       IN  IF getSupabaseThrows
           THEN /\ Caught(p, <<>>, CredentialsError)
                /\ UNCHANGED <<agent_memory, lastStored>>
           ELSE \E o \in DbOutcomes :
                  LET call == DbCall(a.table, "insert", <<>>, NoLimit, a.data, o)
                      r == DbInsert(a.table, a.data)
                      res == IF o = "ok" THEN r.res ELSE Boom
                  IN  /\ agent_memory' = IF o = "ok" THEN r.mem ELSE agent_memory
                      /\ lastStored' = IF o = "ok" THEN Forget(r.touched) ELSE lastStored
                      /\ IF Throws(o) THEN Caught(p, <<call>>, ExcOf(o))
                         ELSE IF res.hasError
                         THEN Finish(p, <<call>>, ErrorFieldEnvelope("", res.message))
                         ELSE Finish(p, <<call>>, SuccessEnvelope(JSONstringify(
                                 [success |-> TRUE, inserted |-> res.data])))
    /\ UNCHANGED <<config, terminal_sessions, voice_messages_tasks, started>>

supabase_update(p) ==
    /\ Running(p, "supabase_update", "handler")
    /\ LET a == inv[p].args
           filters == FilterClauses(a)
       IN  IF getSupabaseThrows
           THEN /\ Caught(p, <<>>, CredentialsError)
                /\ UNCHANGED <<agent_memory, lastStored>>
           ELSE \E o \in DbOutcomes :
                  LET call == DbCall(a.table, "update", filters, NoLimit, a.data, o)
                      r == DbUpdate(a.table, a.data, filters)
                      res == IF o = "ok" THEN r.res ELSE Boom
                  IN  /\ agent_memory' = IF o = "ok" THEN r.mem ELSE agent_memory
                      /\ lastStored' = IF o = "ok" THEN Forget(r.touched) ELSE lastStored
                      /\ IF Throws(o) THEN Caught(p, <<call>>, ExcOf(o))
                         ELSE IF res.hasError
                         THEN Finish(p, <<call>>, ErrorFieldEnvelope("", res.message))
                         ELSE Finish(p, <<call>>, SuccessEnvelope(JSONstringify(
                                 [success |-> TRUE, updated |-> LengthOrZero(res),
                                  data |-> res.data])))
    /\ UNCHANGED <<config, terminal_sessions, voice_messages_tasks, started>>

supabase_delete(p) ==
    /\ Running(p, "supabase_delete", "handler")
    /\ LET a == inv[p].args
           filters == FilterClauses(a)
       IN  IF getSupabaseThrows
           THEN /\ Caught(p, <<>>, CredentialsError)
                /\ UNCHANGED <<agent_memory, lastStored>>
           ELSE \E o \in DbOutcomes :
                  LET call == DbCall(a.table, "delete", filters, NoLimit, <<>>, o)
                      r == DbDelete(a.table, filters)
                      res == IF o = "ok" THEN r.res ELSE Boom
                  IN  /\ agent_memory' = IF o = "ok" THEN r.mem ELSE agent_memory
                      /\ lastStored' = IF o = "ok" THEN Forget(r.touched) ELSE lastStored
                      /\ IF Throws(o) THEN Caught(p, <<call>>, ExcOf(o))
                         ELSE IF res.hasError
                         THEN Finish(p, <<call>>, ErrorFieldEnvelope("", res.message))
                         ELSE Finish(p, <<call>>, SuccessEnvelope(JSONstringify(
                                 [success |-> TRUE, deleted |-> LengthOrZero(res)])))
    /\ UNCHANGED <<config, terminal_sessions, voice_messages_tasks, started>>

(* ---------------------------------------------------------------------- *)
(* Memory tools                                                            *)
(* ---------------------------------------------------------------------- *)
RecallLimit == 20

(* The category as given, undefined when the call gave none. *)
CategoryAsGiven(category) == category

(* category || 'general' *)
CategoryOrGeneral(category) == IF Truthy(category) THEN category ELSE "general"

(* An upsert that writes the key into the value column. *)
UpsertRowKeyAsValue(key, value, category) ==
    [present |-> TRUE, key |-> key, value |-> key,
     category |-> CategoryOrGeneral(category)]

(* The row store_memory upserts. *)
UpsertRow(key, value, category) ==
    [present |-> TRUE, key |-> key, value |-> value,
     category |-> CategoryOrGeneral(category)]

store_memory(p) ==
    /\ Running(p, "store_memory", "handler")
    /\ LET a == inv[p].args
           row == UpsertRow(a.key, a.value, Arg(a, "category", Undefined))
       IN  IF getSupabaseThrows
           THEN /\ Caught(p, <<>>, CredentialsError)
                /\ UNCHANGED <<agent_memory, lastStored>>
           ELSE \E o \in DbOutcomes :
                  LET call == DbCall("agent_memory", "upsert", <<>>, NoLimit,
                                     MemoryRow(row), o)
                      res == IF o = "ok" THEN NoDataRes ELSE Boom
                  IN  /\ agent_memory' = IF o = "ok"
                                         THEN [agent_memory EXCEPT ![a.key] = row]
                                         ELSE agent_memory
                      /\ lastStored' = IF o = "ok"
                                       THEN [lastStored EXCEPT ![a.key] = a.value]
                                       ELSE lastStored
                      /\ IF Throws(o) THEN Caught(p, <<call>>, ExcOf(o))
                         ELSE IF res.hasError
                         THEN Finish(p, <<call>>,
                                     ErrorFieldEnvelope("storing memory", res.message))
                         ELSE Finish(p, <<call>>, SuccessEnvelope(JSONstringify(
                                 [success |-> TRUE, stored |-> a.key])))
    /\ UNCHANGED <<config, terminal_sessions, voice_messages_tasks, started>>

(* The eq clauses recall_memory adds for a truthy key and a truthy category. *)
RecallClauses(key, category) ==
    (IF Truthy(key) THEN <<Clause("key", "eq", key)>> ELSE <<>>)
        \o (IF Truthy(category) THEN <<Clause("category", "eq", category)>> ELSE <<>>)

recall_memory(p) ==
    /\ Running(p, "recall_memory", "handler")
    /\ LET a == inv[p].args
           filters == RecallClauses(Arg(a, "key", Undefined), Arg(a, "category", Undefined))
       IN  IF getSupabaseThrows
           THEN Caught(p, <<>>, CredentialsError)
           ELSE \E o \in DbOutcomes :
                  LET call == DbCall("agent_memory", "select", filters, RecallLimit, <<>>, o)
                      res == IF o = "ok"
                             THEN DbSelect("agent_memory", filters, RecallLimit).res
                             ELSE Boom
                  IN  IF Throws(o) THEN Caught(p, <<call>>, ExcOf(o))
                      ELSE IF res.hasError
                      THEN Finish(p, <<call>>,
                                  ErrorFieldEnvelope("recalling memory", res.message))
                      ELSE Finish(p, <<call>>, SuccessEnvelope(JSONstringify(
                              [success |-> TRUE, memories |-> res.data])))
    /\ UNCHANGED <<config, db, started, lastStored>>

(* ---------------------------------------------------------------------- *)
(* Voice-terminal bridge tools                                             *)
(* ---------------------------------------------------------------------- *)
Null == "null"

DefaultPendingLimit == 10

DefaultRecentLimit == 5

(* .select('col, ...'): the named columns of each row. *)
Select(rows, columns) == [i \in 1..Len(rows) |-> [c \in columns |-> rows[i][c]]]

(* Newest first, whatever direction was asked for. *)
OrderedDescending(rows, ascending) == Reverse(rows)

(* .order('created_at', { ascending }) over rows kept in creation order. *)
Ordered(rows, ascending) == IF ascending THEN rows ELSE Reverse(rows)

(* A task row inserted as already completed. *)
TaskRowCompleted(tsk, command_text, intent, session_id) ==
    [id |-> Len(tsk) + 1, command_text |-> command_text, intent |-> intent,
     status |-> "completed", session_id |-> session_id, response_data |-> Null]

(* A new voice_messages_tasks row; the database assigns the serial id. *)
TaskRow(tsk, command_text, intent, session_id) ==
    [id |-> Len(tsk) + 1, command_text |-> command_text, intent |-> intent,
     status |-> "pending", session_id |-> session_id, response_data |-> Null]

run_terminal_command(p) ==
    /\ Running(p, "run_terminal_command", "handler")
    /\ LET a == inv[p].args
           row == TaskRow(voice_messages_tasks, Trim(a.command),
                          IF Truthy(Arg(a, "intent", Undefined)) THEN a.intent ELSE Null,
                          Null)
       IN  IF getSupabaseThrows
           THEN /\ Caught(p, <<>>, CredentialsError)
                /\ UNCHANGED voice_messages_tasks
           ELSE \E o \in DbOutcomes :
                  LET call == DbCall("voice_messages_tasks", "insert", <<>>, NoLimit, row, o)
                      res == IF o = "ok" THEN Single(OkRes(<<row>>)) ELSE Boom
                  IN  /\ voice_messages_tasks' =
                            IF o = "ok" THEN Append(voice_messages_tasks, row)
                            ELSE voice_messages_tasks
                      /\ IF Throws(o) THEN Caught(p, <<call>>, ExcOf(o))
                         ELSE IF res.hasError
                         THEN Finish(p, <<call>>,
                                     ErrorFieldEnvelope("queueing command", res.message))
                         ELSE Finish(p, <<call>>, SuccessEnvelope(JSONstringify(
                                 [success |-> TRUE, task_id |-> res.data[1].id,
                                  command |-> res.data[1].command_text,
                                  status |-> res.data[1].status,
                                  message |-> "Command queued for terminal execution. The terminal will run it shortly."])))
    /\ UNCHANGED <<config, agent_memory, terminal_sessions, started, lastStored>>

check_command_status(p) ==
    /\ Running(p, "check_command_status", "handler")
    /\ LET a == inv[p].args
           filters == <<Clause("id", "eq", a.task_id)>>
       IN  IF getSupabaseThrows
           THEN Caught(p, <<>>, CredentialsError)
           ELSE \E o \in DbOutcomes :
                  LET call == DbCall("voice_messages_tasks", "select", filters, NoLimit, <<>>, o)
                      res == IF o = "ok"
                             THEN Single(OkRes(TaskRows(voice_messages_tasks, filters)))
                             ELSE Boom
                  IN  IF Throws(o) THEN Caught(p, <<call>>, ExcOf(o))
                      ELSE IF res.hasError
                      THEN Finish(p, <<call>>,
                                  ErrorFieldEnvelope("checking status", res.message))
                      ELSE IF ~res.hasData
                      THEN Finish(p, <<call>>, ErrorEnvelope(Template(
                              <<"Task ", ToString(a.task_id), " not found">>)))
                      ELSE Finish(p, <<call>>, SuccessEnvelope(JSONstringify(
                              [success |-> TRUE,
                               task |-> [id |-> res.data[1].id,
                                         command |-> res.data[1].command_text,
                                         intent |-> res.data[1].intent,
                                         status |-> res.data[1].status,
                                         result |-> res.data[1].response_data]])))
    /\ UNCHANGED <<config, db, started, lastStored>>

get_pending_commands(p) ==
    /\ Running(p, "get_pending_commands", "handler")
    /\ LET a == inv[p].args
           limit == Arg(a, "limit", DefaultPendingLimit)
           filters == <<Clause("status", "eq", "pending")>>
       IN  IF getSupabaseThrows
           THEN Caught(p, <<>>, CredentialsError)
           ELSE \E o \in DbOutcomes :
                  LET call == DbCall("voice_messages_tasks", "select", filters, limit,
                                     [order |-> "created_at", ascending |-> TRUE], o)
                      res == IF o = "ok"
                             THEN OkRes(Select(
                                      Limit(Ordered(TaskRows(voice_messages_tasks,
                                                             filters), TRUE), limit),
                                      {"id", "command_text", "intent", "status"}))
                             ELSE Boom
                  IN  IF Throws(o) THEN Caught(p, <<call>>, ExcOf(o))
                      ELSE IF res.hasError
                      THEN Finish(p, <<call>>,
                                  ErrorFieldEnvelope("fetching pending commands", res.message))
                      ELSE Finish(p, <<call>>, SuccessEnvelope(JSONstringify(
                              [success |-> TRUE, count |-> LengthOrZero(res),
                               pending_commands |-> res.data])))
    /\ UNCHANGED <<config, db, started, lastStored>>

(* recent_commands: data?.map(cmd => ({id, command, status, result, ...})) *)
RecentCommand(cmd) ==
    [id |-> cmd.id, command |-> cmd.command_text, status |-> cmd.status,
     result |-> cmd.response_data]

get_recent_commands(p) ==
    /\ Running(p, "get_recent_commands", "handler")
    /\ LET a == inv[p].args
           limit == Arg(a, "limit", DefaultRecentLimit)
           status == Arg(a, "status", "all")
           filters == IF status # "all" THEN <<Clause("status", "eq", status)>> ELSE <<>>
       IN  IF getSupabaseThrows
           THEN Caught(p, <<>>, CredentialsError)
           ELSE \E o \in DbOutcomes :
                  LET call == DbCall("voice_messages_tasks", "select", filters, limit,
                                     [order |-> "created_at", ascending |-> FALSE], o)
                      res == IF o = "ok"
                             THEN OkRes(Limit(Reverse(TaskRows(voice_messages_tasks, filters)),
                                              limit))
                             ELSE Boom
                  IN  IF Throws(o) THEN Caught(p, <<call>>, ExcOf(o))
                      ELSE IF res.hasError
                      THEN Finish(p, <<call>>,
                                  ErrorFieldEnvelope("fetching recent commands", res.message))
                      ELSE Finish(p, <<call>>, SuccessEnvelope(JSONstringify(
                              [success |-> TRUE, count |-> LengthOrZero(res),
                               recent_commands |->
                                   [i \in 1..Len(res.data) |-> RecentCommand(res.data[i])]])))
    /\ UNCHANGED <<config, db, started, lastStored>>

(* ---------------------------------------------------------------------- *)
(* Terminal session tools                                                  *)
(* ---------------------------------------------------------------------- *)
TermIds == {"term-1"}

ClaudeIds == {"claude-1"}

ListSessionsLimit == 20

(* from('terminal_sessions').insert(row).select().single() *)
InsertSession(ses, row) ==
    IF ses[row.id].present
    THEN [res |-> ErrRes("duplicate key value violates unique constraint"), ses |-> ses]
    ELSE [res |-> Single(OkRes(<<SessionRow(row)>>)),
          ses |-> [ses EXCEPT ![row.id] = row]]

NewSession(id, name, agent_type) ==
    [present |-> TRUE, id |-> id, name |-> name, agent_type |-> agent_type,
     status |-> "pending", is_focused |-> FALSE]

create_terminal_session(p) ==
    /\ Running(p, "create_terminal_session", "handler")
    /\ LET a == inv[p].args
       IN  IF getSupabaseThrows
           THEN /\ Caught(p, <<>>, CredentialsError)
                /\ UNCHANGED terminal_sessions
           ELSE \E o \in DbOutcomes, sessionId \in TermIds :
                  LET row == NewSession(sessionId, a.name, Arg(a, "agent_type", "shell"))
                      call == DbCall("terminal_sessions", "insert", <<>>, NoLimit,
                                     SessionRow(row), o)
                      r == InsertSession(terminal_sessions, row)
                      res == IF o = "ok" THEN r.res ELSE Boom
                  IN  /\ terminal_sessions' = IF o = "ok" THEN r.ses ELSE terminal_sessions
                      /\ IF Throws(o) THEN Caught(p, <<call>>, ExcOf(o))
                         ELSE IF res.hasError
                         THEN Finish(p, <<call>>,
                                     ErrorFieldEnvelope("creating session", res.message))
                         ELSE Finish(p, <<call>>, SuccessEnvelope(JSONstringify(
                                 [success |-> TRUE, session_id |-> res.data[1].id,
                                  name |-> res.data[1].name, status |-> "pending",
                                  message |-> "Terminal session created. i-View will spawn the terminal shortly."])))
    /\ UNCHANGED <<config, agent_memory, voice_messages_tasks, started, lastStored>>

list_terminal_sessions(p) ==
    /\ Running(p, "list_terminal_sessions", "handler")
    /\ LET a == inv[p].args
           status == Arg(a, "status", "active")
           filters == IF status # "all" THEN <<Clause("status", "eq", status)>> ELSE <<>>
       IN  IF getSupabaseThrows
           THEN Caught(p, <<>>, CredentialsError)
           ELSE \E o \in DbOutcomes :
                  LET call == DbCall("terminal_sessions", "select", filters, ListSessionsLimit,
                                     [order |-> "created_at", ascending |-> FALSE], o)
                      res == IF o = "ok"
                             THEN OkRes(Limit(Reverse(SessionRows(terminal_sessions, filters)),
                                              ListSessionsLimit))
                             ELSE Boom
                  IN  IF Throws(o) THEN Caught(p, <<call>>, ExcOf(o))
                      ELSE IF res.hasError
                      THEN Finish(p, <<call>>,
                                  ErrorFieldEnvelope("listing sessions", res.message))
                      ELSE Finish(p, <<call>>, SuccessEnvelope(JSONstringify(
                              [success |-> TRUE, count |-> LengthOrZero(res),
                               sessions |-> res.data])))
    /\ UNCHANGED <<config, db, started, lastStored>>

(* A switch that also marks the session active. *)
SwitchPatchActivating == [is_focused |-> TRUE, status |-> "active"]

(* The columns switch_terminal_session updates (last_activity_at aside). *)
SwitchPatch == [is_focused |-> TRUE]

(* First await of switch_terminal_session: update({is_focused: true})     *)
(* .eq('id', session_id).select().single()                                 *)
switch_terminal_session(p) ==
    /\ Running(p, "switch_terminal_session", "handler")
    /\ LET a == inv[p].args
           filters == <<Clause("id", "eq", a.session_id)>>
       IN  IF getSupabaseThrows
           THEN /\ Caught(p, <<>>, CredentialsError)
                /\ UNCHANGED terminal_sessions
           ELSE \E o \in DbOutcomes :
                  LET call == DbCall("terminal_sessions", "update", filters, NoLimit,
                                     SwitchPatch, o)
                      ses == [i \in SessionIds |->
                                IF terminal_sessions[i].present /\ i = a.session_id
                                THEN Patch(terminal_sessions[i], SwitchPatch)
                                ELSE terminal_sessions[i]]
                      res == IF o = "ok" THEN Single(OkRes(SessionRows(ses, filters)))
                             ELSE Boom
                  IN  /\ terminal_sessions' = IF o = "ok" THEN ses ELSE terminal_sessions
                      /\ IF Throws(o) THEN Caught(p, <<call>>, ExcOf(o))
                         ELSE IF res.hasError
                         THEN Finish(p, <<call>>,
                                     ErrorFieldEnvelope("switching session", res.message))
                         ELSE Continue(p, <<call>>, "queue", [name |-> res.data[1].name])
    /\ UNCHANGED <<config, agent_memory, voice_messages_tasks, started, lastStored>>

(* Second await: the __SWITCH_SESSION__ task insert, whose result is dropped. *)
switch_terminal_session_queue(p) ==
    /\ Running(p, "switch_terminal_session", "queue")
    /\ LET a == inv[p].args
           row == TaskRow(voice_messages_tasks, "__SWITCH_SESSION__:" \o a.session_id,
                          "switch_terminal", Null)
       IN  \E o \in DbOutcomes :
             LET call == DbCall("voice_messages_tasks", "insert", <<>>, NoLimit, row, o)
             IN  /\ voice_messages_tasks' =
                       IF o = "ok" THEN Append(voice_messages_tasks, row)
                       ELSE voice_messages_tasks
                 /\ IF Throws(o) THEN Caught(p, <<call>>, ExcOf(o))
                    ELSE Finish(p, <<call>>, SuccessEnvelope(JSONstringify(
                            [success |-> TRUE, session_id |-> a.session_id,
                             name |-> inv[p].local.name,
                             message |-> "Switched to terminal session: " \o
                                 (IF Truthy(inv[p].local.name) THEN inv[p].local.name
                                  ELSE a.session_id)])))
    /\ UNCHANGED <<config, agent_memory, terminal_sessions, started, lastStored>>

(* close_terminal_session without its `if (error)` return: the task is    *)
(* queued whatever the session update answered.                           *)
close_terminal_session_unchecked(p) ==
    /\ Running(p, "close_terminal_session", "handler")
    /\ LET a == inv[p].args
           filters == <<Clause("id", "eq", a.session_id)>>
       IN  IF getSupabaseThrows
           THEN /\ Caught(p, <<>>, CredentialsError)
                /\ UNCHANGED terminal_sessions
           ELSE \E o \in DbOutcomes :
                  LET call == DbCall("terminal_sessions", "update", filters, NoLimit,
                                     [status |-> "closed"], o)
                      ses == [i \in SessionIds |->
                                IF terminal_sessions[i].present /\ i = a.session_id
                                THEN Patch(terminal_sessions[i], [status |-> "closed"])
                                ELSE terminal_sessions[i]]
                      res == IF o = "ok" THEN NoDataRes ELSE Boom
                  IN  /\ terminal_sessions' = IF o = "ok" THEN ses ELSE terminal_sessions
                      /\ IF Throws(o) THEN Caught(p, <<call>>, ExcOf(o))
                         ELSE Continue(p, <<call>>, "queue", <<>>)
    /\ UNCHANGED <<config, agent_memory, voice_messages_tasks, started, lastStored>>

(* First await of close_terminal_session: update({status: 'closed'})      *)
(* .eq('id', session_id), without select: no row is required to match.    *)
close_terminal_session(p) ==
    /\ Running(p, "close_terminal_session", "handler")
    /\ LET a == inv[p].args
           filters == <<Clause("id", "eq", a.session_id)>>
       IN  IF getSupabaseThrows
           THEN /\ Caught(p, <<>>, CredentialsError)
                /\ UNCHANGED terminal_sessions
           ELSE \E o \in DbOutcomes :
                  LET call == DbCall("terminal_sessions", "update", filters, NoLimit,
                                     [status |-> "closed"], o)
                      ses == [i \in SessionIds |->
                                IF terminal_sessions[i].present /\ i = a.session_id
                                THEN Patch(terminal_sessions[i], [status |-> "closed"])
                                ELSE terminal_sessions[i]]
                      res == IF o = "ok" THEN NoDataRes ELSE Boom
                  IN  /\ terminal_sessions' = IF o = "ok" THEN ses ELSE terminal_sessions
                      /\ IF Throws(o) THEN Caught(p, <<call>>, ExcOf(o))
                         ELSE IF res.hasError
                         THEN Finish(p, <<call>>,
                                     ErrorFieldEnvelope("closing session", res.message))
                         ELSE Continue(p, <<call>>, "queue", <<>>)
    /\ UNCHANGED <<config, agent_memory, voice_messages_tasks, started, lastStored>>

(* Second await: the __CLOSE_SESSION__ task insert, whose result is dropped. *)
close_terminal_session_queue(p) ==
    /\ Running(p, "close_terminal_session", "queue")
    /\ LET a == inv[p].args
           row == TaskRow(voice_messages_tasks, "__CLOSE_SESSION__:" \o a.session_id,
                          "close_terminal", Null)
       IN  \E o \in DbOutcomes :
             LET call == DbCall("voice_messages_tasks", "insert", <<>>, NoLimit, row, o)
             IN  /\ voice_messages_tasks' =
                       IF o = "ok" THEN Append(voice_messages_tasks, row)
                       ELSE voice_messages_tasks
                 /\ IF Throws(o) THEN Caught(p, <<call>>, ExcOf(o))
                    ELSE Finish(p, <<call>>, SuccessEnvelope(JSONstringify(
                            [success |-> TRUE, session_id |-> a.session_id,
                             message |-> "Terminal session marked for closure."])))
    /\ UNCHANGED <<config, agent_memory, terminal_sessions, started, lastStored>>

(* ---------------------------------------------------------------------- *)
(* Claude Code agent tools                                                 *)
(* ---------------------------------------------------------------------- *)
StatusTasksLimit == 5

ListAgentsLimit == 10

(* The shell command start_claude_agent builds, as its pieces in order. *)
claudeCmd(model, initial_prompt) ==
    <<"claude">>
        \o (IF Truthy(model) /\ model # "sonnet" THEN <<" --model ", model>> ELSE <<>>)
        \o (IF Truthy(initial_prompt) THEN <<" '", initial_prompt, "'">> ELSE <<>>)

(* First await of start_claude_agent: the terminal_sessions insert. *)
start_claude_agent(p) ==
    /\ Running(p, "start_claude_agent", "handler")
    /\ LET a == inv[p].args
       IN  IF getSupabaseThrows
           THEN /\ Caught(p, <<>>, CredentialsError)
                /\ UNCHANGED terminal_sessions
           ELSE \E o \in DbOutcomes, sessionId \in ClaudeIds :
                  LET row == NewSession(sessionId, a.name, "claude-code")
                      call == DbCall("terminal_sessions", "insert", <<>>, NoLimit,
                                     SessionRow(row), o)
                      r == InsertSession(terminal_sessions, row)
                      res == IF o = "ok" THEN r.res ELSE Boom
                  IN  /\ terminal_sessions' = IF o = "ok" THEN r.ses ELSE terminal_sessions
                      /\ IF Throws(o) THEN Caught(p, <<call>>, ExcOf(o))
                         ELSE IF res.hasError
                         THEN Finish(p, <<call>>,
                                     ErrorFieldEnvelope("creating Claude session", res.message))
                         ELSE Continue(p, <<call>>, "queue", [sessionId |-> sessionId])
    /\ UNCHANGED <<config, agent_memory, voice_messages_tasks, started, lastStored>>

(* Second await: the __START_CLAUDE__ task insert, whose result is dropped. *)
start_claude_agent_queue(p) ==
    /\ Running(p, "start_claude_agent", "queue")
    /\ LET a == inv[p].args
           sessionId == inv[p].local.sessionId
           model == Arg(a, "model", "sonnet")
           initial_prompt == Arg(a, "initial_prompt", Undefined)
           row == TaskRow(voice_messages_tasks, "__START_CLAUDE__:" \o sessionId,
                          "start_claude_agent", sessionId)
       IN  \E o \in DbOutcomes :
             LET call == DbCall("voice_messages_tasks", "insert", <<>>, NoLimit,
                                [row |-> row,
                                 claude_command |-> claudeCmd(model, initial_prompt)], o)
             IN  /\ voice_messages_tasks' =
                       IF o = "ok" THEN Append(voice_messages_tasks, row)
                       ELSE voice_messages_tasks
                 /\ IF Throws(o) THEN Caught(p, <<call>>, ExcOf(o))
                    ELSE Finish(p, <<call>>, SuccessEnvelope(JSONstringify(
                            [success |-> TRUE, session_id |-> sessionId, name |-> a.name,
                             model |-> model,
                             initial_prompt |-> IF Truthy(initial_prompt)
                                                THEN "Provided" ELSE "None"])))
    /\ UNCHANGED <<config, agent_memory, terminal_sessions, started, lastStored>>

SessionNotFound(session_id) ==
    ErrorEnvelope(Template(<<"Session not found: ", session_id>>))

(* First await of send_to_claude_agent: look the session up. *)
send_to_claude_agent(p) ==
    /\ Running(p, "send_to_claude_agent", "handler")
    /\ LET a == inv[p].args
           filters == <<Clause("id", "eq", a.session_id)>>
       IN  IF getSupabaseThrows
           THEN Caught(p, <<>>, CredentialsError)
           ELSE \E o \in DbOutcomes :
                  LET call == DbCall("terminal_sessions", "select", filters, NoLimit, <<>>, o)
                      res == IF o = "ok"
                             THEN Single(OkRes(SessionRows(terminal_sessions, filters)))
                             ELSE Boom
                  IN  IF Throws(o) THEN Caught(p, <<call>>, ExcOf(o))
                      ELSE IF res.hasError \/ ~res.hasData
                      THEN Finish(p, <<call>>, SessionNotFound(a.session_id))
                      ELSE Continue(p, <<call>>, "insert", [session |-> res.data[1]])
    /\ UNCHANGED <<config, db, started, lastStored>>

(* Second await: queue the message as a task. *)
send_to_claude_agent_insert(p) ==
    /\ Running(p, "send_to_claude_agent", "insert")
    /\ LET a == inv[p].args
           row == TaskRow(voice_messages_tasks, a.message, "claude_message", a.session_id)
       IN  \E o \in DbOutcomes :
             LET call == DbCall("voice_messages_tasks", "insert", <<>>, NoLimit, row, o)
                 res == IF o = "ok" THEN Single(OkRes(<<row>>)) ELSE Boom
             IN  /\ voice_messages_tasks' =
                       IF o = "ok" THEN Append(voice_messages_tasks, row)
                       ELSE voice_messages_tasks
                 /\ IF Throws(o) THEN Caught(p, <<call>>, ExcOf(o))
                    ELSE IF res.hasError
                    THEN Finish(p, <<call>>,
                                ErrorFieldEnvelope("sending message", res.message))
                    ELSE Continue(p, <<call>>, "touch",
                                  [session |-> inv[p].local.session,
                                   task_id |-> res.data[1].id])
    /\ UNCHANGED <<config, agent_memory, terminal_sessions, started, lastStored>>

(* The activity update re-issued when the collaborator reports an error. *)
send_to_claude_agent_touch_retry(p) ==
    /\ Running(p, "send_to_claude_agent", "touch")
    /\ LET a == inv[p].args
           filters == <<Clause("id", "eq", a.session_id)>>
           session == inv[p].local.session
       IN  \E o \in DbOutcomes :
             LET call == DbCall("terminal_sessions", "update", filters, NoLimit,
                                [last_activity_at |-> "now"], o)
             IN  IF Throws(o) THEN Caught(p, <<call>>, ExcOf(o))
                 ELSE IF o = "error" THEN Continue(p, <<call>>, "touch", inv[p].local)
                 ELSE Finish(p, <<call>>, SuccessEnvelope(JSONstringify(
                         [success |-> TRUE, task_id |-> inv[p].local.task_id,
                          session_id |-> a.session_id, session_name |-> session.name])))
    /\ UNCHANGED <<config, db, started, lastStored>>

(* Third await: update last_activity_at, whose result is dropped. *)
send_to_claude_agent_touch(p) ==
    /\ Running(p, "send_to_claude_agent", "touch")
    /\ LET a == inv[p].args
           filters == <<Clause("id", "eq", a.session_id)>>
           session == inv[p].local.session
       IN  \E o \in DbOutcomes :
             LET call == DbCall("terminal_sessions", "update", filters, NoLimit,
                                [last_activity_at |-> "now"], o)
             IN  IF Throws(o) THEN Caught(p, <<call>>, ExcOf(o))
                 ELSE Finish(p, <<call>>, SuccessEnvelope(JSONstringify(
                         [success |-> TRUE, task_id |-> inv[p].local.task_id,
                          session_id |-> a.session_id, session_name |-> session.name])))
    /\ UNCHANGED <<config, db, started, lastStored>>

(* First await of get_claude_agent_status: look the session up. *)
get_claude_agent_status(p) ==
    /\ Running(p, "get_claude_agent_status", "handler")
    /\ LET a == inv[p].args
           filters == <<Clause("id", "eq", a.session_id)>>
       IN  IF getSupabaseThrows
           THEN Caught(p, <<>>, CredentialsError)
           ELSE \E o \in DbOutcomes :
                  LET call == DbCall("terminal_sessions", "select", filters, NoLimit, <<>>, o)
                      res == IF o = "ok"
                             THEN Single(OkRes(SessionRows(terminal_sessions, filters)))
                             ELSE Boom
                  IN  IF Throws(o) THEN Caught(p, <<call>>, ExcOf(o))
                      ELSE IF res.hasError \/ ~res.hasData
                      THEN Finish(p, <<call>>, SessionNotFound(a.session_id))
                      ELSE Continue(p, <<call>>, "tasks", [session |-> res.data[1]])
    /\ UNCHANGED <<config, db, started, lastStored>>

(* recent_activity: recentTasks?.map(t => ({id, command, status, has_result})) *)
RecentActivity(t) ==
    [id |-> t.id, command |-> t.command_text, status |-> t.status,
     has_result |-> t.response_data # Null]

(* Second await: the session's latest tasks; an error field is dropped. *)
get_claude_agent_status_tasks(p) ==
    /\ Running(p, "get_claude_agent_status", "tasks")
    /\ LET a == inv[p].args
           filters == <<Clause("session_id", "eq", a.session_id)>>
           session == inv[p].local.session
       IN  \E o \in DbOutcomes :
             LET call == DbCall("voice_messages_tasks", "select", filters, StatusTasksLimit,
                                [order |-> "created_at", ascending |-> FALSE], o)
                 res == IF o = "ok"
                        THEN OkRes(Limit(Reverse(TaskRows(voice_messages_tasks, filters)),
                                         StatusTasksLimit))
                        ELSE Boom
             IN  IF Throws(o) THEN Caught(p, <<call>>, ExcOf(o))
                 ELSE IF ~res.hasData
                 THEN Finish(p, <<call>>, SuccessEnvelope(JSONstringify(
                         [success |-> TRUE, session |-> session])))
                 ELSE Finish(p, <<call>>, SuccessEnvelope(JSONstringify(
                         [success |-> TRUE, session |-> session,
                          recent_activity |->
                              [i \in 1..Len(res.data) |-> RecentActivity(res.data[i])]])))
    /\ UNCHANGED <<config, db, started, lastStored>>

(* summary counts of list_claude_agents: data?.filter(s => s.status === st) *)
CountStatus(rows, st) == Len(SelectSeq(rows, LAMBDA r : r.status = st))

list_claude_agents(p) ==
    /\ Running(p, "list_claude_agents", "handler")
    /\ LET filters == <<Clause("agent_type", "eq", "claude-code")>>
       IN  IF getSupabaseThrows
           THEN Caught(p, <<>>, CredentialsError)
           ELSE \E o \in DbOutcomes :
                  LET call == DbCall("terminal_sessions", "select", filters, ListAgentsLimit,
                                     [order |-> "created_at", ascending |-> FALSE], o)
                      res == IF o = "ok"
                             THEN OkRes(Limit(Reverse(SessionRows(terminal_sessions, filters)),
                                              ListAgentsLimit))
                             ELSE Boom
                  IN  IF Throws(o) THEN Caught(p, <<call>>, ExcOf(o))
                      ELSE IF res.hasError
                      THEN Finish(p, <<call>>,
                                  ErrorFieldEnvelope("listing agents", res.message))
                      ELSE Finish(p, <<call>>, SuccessEnvelope(JSONstringify(
                              [success |-> TRUE,
                               summary |-> [active |-> CountStatus(res.data, "active"),
                                            pending |-> CountStatus(res.data, "pending"),
                                            closed |-> CountStatus(res.data, "closed")],
                               agents |-> res.data])))
    /\ UNCHANGED <<config, db, started, lastStored>>

(* ---------------------------------------------------------------------- *)
(* Toolkit reference tools                                                 *)
(* ---------------------------------------------------------------------- *)
FullToolkit ==
    [apis |-> "apis", cli |-> [pipeline |-> "run", batch |-> "batch"],
     costs |-> "costs", pipeline_stages |-> "stages", presets |-> "presets",
     data_paths |-> [golden_records |-> "/data/golden"]]

EmptyToolkit == [f \in {} |-> ""]

(* The body the toolkit service answers a 2xx with. *)
ToolkitData(o) == IF o = "ok" THEN FullToolkit ELSE EmptyToolkit

(* fetch rejects, the status is not ok, or response.json() rejects. *)
FetchThrows(o) == o \in {"non2xx", "throw", "bad_json"}

FetchExc(o) ==
    CASE o = "non2xx"   -> ErrorInstance("HTTP 500")
      [] o = "bad_json" -> ErrorInstance("Unexpected token < in JSON at position 0")
      [] OTHER          -> ErrorInstance("fetch failed")

(* Property read: undefined when the object lacks the property. *)
Field(obj, f) == IF f \in DOMAIN obj THEN obj[f] ELSE Undefined

(* The properties among fs that obj lacks: reading them gives undefined. *)
Missing(obj, fs) == {f \in fs : f \notin DOMAIN obj}

(* JSON.stringify drops the properties whose value is undefined. *)
Omit(obj, undefinedFields) == [f \in DOMAIN obj \ undefinedFields |-> obj[f]]

TypeErrorUndefined == ErrorInstance("Cannot read properties of undefined")

get_system_toolkit(p) ==
    /\ Running(p, "get_system_toolkit", "handler")
    /\ LET section == Arg(inv[p].args, "section", "all")
           url == IF section = "all" THEN TOOLKIT_BASE_URL \o "/api/toolkit"
                  ELSE TOOLKIT_BASE_URL \o "/api/toolkit?section=" \o section
       IN  \E o \in HttpJsonOutcomes :
             IF FetchThrows(o)
             THEN CaughtFetch(p, <<HttpCall(url, o)>>, "toolkit", FetchExc(o))
             ELSE Finish(p, <<HttpCall(url, o)>>, SuccessEnvelope(JSONstringify(
                     [success |-> TRUE, section |-> section, toolkit |-> ToolkitData(o)])))
    /\ UNCHANGED <<config, db, started, lastStored>>

get_callable_commands(p) ==
    /\ Running(p, "get_callable_commands", "handler")
    /\ LET format == Arg(inv[p].args, "format", "markdown")
           url == IF format = "json" THEN TOOLKIT_BASE_URL \o "/api/toolkit/commands?format=json"
                  ELSE TOOLKIT_BASE_URL \o "/api/toolkit/commands"
       IN  IF format = "json"
           THEN \E o \in HttpJsonOutcomes :
                  IF FetchThrows(o)
                  THEN CaughtFetch(p, <<HttpCall(url, o)>>, "commands", FetchExc(o))
                  ELSE Finish(p, <<HttpCall(url, o)>>, SuccessEnvelope(JSONstringify(
                          [success |-> TRUE, commands |-> ToolkitData(o)])))
           ELSE \E o \in HttpTextOutcomes, body \in Bodies :
                  IF FetchThrows(o)
                  THEN CaughtFetch(p, <<HttpCall(url, o)>>, "commands", FetchExc(o))
                  ELSE Finish(p, <<HttpCall(url, o)>>, SuccessEnvelope(
                          Template(<<"# Callable Commands\n\n", body>>)))
    /\ UNCHANGED <<config, db, started, lastStored>>

get_import_statements(p) ==
    /\ Running(p, "get_import_statements", "handler")
    /\ LET format == Arg(inv[p].args, "format", "json")
           url == IF format = "json" THEN TOOLKIT_BASE_URL \o "/api/toolkit/imports?format=json"
                  ELSE TOOLKIT_BASE_URL \o "/api/toolkit/imports"
       IN  IF format = "json"
           THEN \E o \in HttpJsonOutcomes :
                  IF FetchThrows(o)
                  THEN CaughtFetch(p, <<HttpCall(url, o)>>, "imports", FetchExc(o))
                  ELSE Finish(p, <<HttpCall(url, o)>>, SuccessEnvelope(JSONstringify(
                          [success |-> TRUE, imports |-> ToolkitData(o)])))
           ELSE \E o \in HttpTextOutcomes, body \in Bodies :
                  IF FetchThrows(o)
                  THEN CaughtFetch(p, <<HttpCall(url, o)>>, "imports", FetchExc(o))
                  ELSE Finish(p, <<HttpCall(url, o)>>, SuccessEnvelope(Template(<<body>>)))
    /\ UNCHANGED <<config, db, started, lastStored>>

get_api_reference(p) ==
    /\ Running(p, "get_api_reference", "handler")
    /\ LET url == TOOLKIT_BASE_URL \o "/api/toolkit?section=apis"
       IN  \E o \in HttpJsonOutcomes :
             IF FetchThrows(o)
             THEN CaughtFetch(p, <<HttpCall(url, o)>>, "API reference", FetchExc(o))
             ELSE Finish(p, <<HttpCall(url, o)>>, SuccessEnvelope(JSONstringify(Omit(
                     [success |-> TRUE, description |-> "Mahana API Endpoints",
                      apis |-> Field(ToolkitData(o), "apis")],
                     Missing(ToolkitData(o), {"apis"})))))
    /\ UNCHANGED <<config, db, started, lastStored>>

get_cli_reference(p) ==
    /\ Running(p, "get_cli_reference", "handler")
    /\ LET category == Arg(inv[p].args, "category", "all")
           url == TOOLKIT_BASE_URL \o "/api/toolkit?section=cli"
       IN  \E o \in HttpJsonOutcomes :
             LET cli == Field(ToolkitData(o), "cli")
             IN  IF FetchThrows(o)
                 THEN CaughtFetch(p, <<HttpCall(url, o)>>, "CLI reference", FetchExc(o))
                 ELSE IF category # "all" /\ ~Has(ToolkitData(o), "cli")
                 THEN CaughtFetch(p, <<HttpCall(url, o)>>, "CLI reference", TypeErrorUndefined)
                 ELSE Finish(p, <<HttpCall(url, o)>>, SuccessEnvelope(JSONstringify(Omit(
                         [success |-> TRUE, description |-> "Mahana CLI Commands",
                          category |-> category,
                          commands |-> IF category = "all" THEN cli
                                       ELSE Omit([c \in {category} |-> Field(cli, category)],
                                                 Missing(cli, {category}))],
                         IF category = "all" THEN Missing(ToolkitData(o), {"cli"}) ELSE {}))))
    /\ UNCHANGED <<config, db, started, lastStored>>

get_cost_reference(p) ==
    /\ Running(p, "get_cost_reference", "handler")
    /\ LET url == TOOLKIT_BASE_URL \o "/api/toolkit?section=costs"
       IN  \E o \in HttpJsonOutcomes :
             IF FetchThrows(o)
             THEN CaughtFetch(p, <<HttpCall(url, o)>>, "cost reference", FetchExc(o))
             ELSE Finish(p, <<HttpCall(url, o)>>, SuccessEnvelope(JSONstringify(Omit(
                     [success |-> TRUE, description |-> "Mahana Operation Costs (USD)",
                      costs |-> Field(ToolkitData(o), "costs")],
                     Missing(ToolkitData(o), {"costs"})))))
    /\ UNCHANGED <<config, db, started, lastStored>>

get_pipeline_reference(p) ==
    /\ Running(p, "get_pipeline_reference", "handler")
    /\ LET url == TOOLKIT_BASE_URL \o "/api/toolkit"
       IN  \E o \in HttpJsonOutcomes :
             IF FetchThrows(o)
             THEN CaughtFetch(p, <<HttpCall(url, o)>>, "pipeline reference", FetchExc(o))
             ELSE Finish(p, <<HttpCall(url, o)>>, SuccessEnvelope(JSONstringify(Omit(
                     [success |-> TRUE, description |-> "Mahana Pipeline Stages",
                      stages |-> Field(ToolkitData(o), "pipeline_stages"),
                      presets |-> Field(ToolkitData(o), "presets")],
                     (IF Has(ToolkitData(o), "pipeline_stages") THEN {} ELSE {"stages"})
                         \cup Missing(ToolkitData(o), {"presets"})))))
    /\ UNCHANGED <<config, db, started, lastStored>>

lookup_data_path(p) ==
    /\ Running(p, "lookup_data_path", "handler")
    /\ LET type == inv[p].args.type
           url == TOOLKIT_BASE_URL \o "/api/toolkit?section=data_paths"
       IN  \E o \in HttpJsonOutcomes :
             LET paths == Field(ToolkitData(o), "data_paths")
             IN  IF FetchThrows(o)
                 THEN CaughtFetch(p, <<HttpCall(url, o)>>, "data paths", FetchExc(o))
                 ELSE IF ~Has(ToolkitData(o), "data_paths")
                 THEN CaughtFetch(p, <<HttpCall(url, o)>>, "data paths", TypeErrorUndefined)
                 ELSE Finish(p, <<HttpCall(url, o)>>, SuccessEnvelope(JSONstringify(Omit(
                         [success |-> TRUE, type |-> type, path |-> Field(paths, type),
                          all_paths |-> paths],
                         IF Has(paths, type) THEN {} ELSE {"path"}))))
    /\ UNCHANGED <<config, db, started, lastStored>>

(* ---------------------------------------------------------------------- *)
(* Specification                                                           *)
(* ---------------------------------------------------------------------- *)
(* Rows the external agent_memory table may hold when the server starts. *)
StoredMemory ==
    [k \in Keys |-> [present |-> TRUE, key |-> k,
                     value |-> IF k = "k1" THEN "v1" ELSE "v2",
                     category |-> IF k = "k1" THEN "general" ELSE "c1"]]

(* Rows the external voice_messages_tasks table may hold when the server   *)
(* starts, in creation order: two queued commands around a completed one. *)
StoredTasks ==
    <<[id |-> 1, command_text |-> "pwd", intent |-> Null, status |-> "pending",
       session_id |-> Null, response_data |-> Null],
      [id |-> 2, command_text |-> "make", intent |-> Null, status |-> "completed",
       session_id |-> Null, response_data |-> "ok"],
      [id |-> 3, command_text |-> "date", intent |-> Null, status |-> "pending",
       session_id |-> Null, response_data |-> Null]>>

(* Rows the external terminal_sessions table may hold when the server     *)
(* starts: a focused shell and a Claude agent, both made active by i-View. *)
StoredSessions ==
    [i \in SessionIds |->
        [present |-> TRUE, id |-> i,
         name |-> IF i = "term-1" THEN "shell" ELSE "agent",
         agent_type |-> IF i = "term-1" THEN "shell" ELSE "claude-code",
         status |-> "active", is_focused |-> (i = "term-1")]]

(* The environments the server is deployed in: the database settings and  *)
(* the API secret vary freely; the toolkit URL and the Redis URL are set  *)
(* only in an otherwise complete environment.                             *)
Environments ==
    {c \in [supabaseUrl : BOOLEAN, supabaseKey : BOOLEAN,
            apiSecret : {Undefined, Secret},
            toolkitUrl : {Undefined, "https://toolkit.test"},
            redisUrl : {Undefined, "redis://cache"}] :
        (c.toolkitUrl # Undefined \/ c.redisUrl # Undefined) =>
            (c.supabaseUrl /\ c.supabaseKey /\ c.apiSecret = Undefined
                /\ (c.toolkitUrl = Undefined \/ c.redisUrl = Undefined))}

Init ==
    /\ config \in Environments
    /\ agent_memory \in {[k \in Keys |-> NoMemory], StoredMemory}
    /\ terminal_sessions \in {[i \in SessionIds |-> NoSession], StoredSessions}
    /\ voice_messages_tasks \in {<<>>, StoredTasks}
    /\ inv = [p \in Procs |-> Idle]
    /\ started = 0
    /\ lastStored = [k \in Keys |-> ""]

(* One step of the tool handler running in slot p. *)
ToolStep(p) ==
    \/ get_current_time(p)
    \/ supabase_query(p)
    \/ supabase_insert(p)
    \/ supabase_update(p)
    \/ supabase_delete(p)
    \/ run_terminal_command(p)
    \/ check_command_status(p)
    \/ get_pending_commands(p)
    \/ get_recent_commands(p)
    \/ create_terminal_session(p)
    \/ list_terminal_sessions(p)
    \/ switch_terminal_session(p)
    \/ switch_terminal_session_queue(p)
    \/ close_terminal_session(p)
    \/ close_terminal_session_queue(p)
    \/ start_claude_agent(p)
    \/ start_claude_agent_queue(p)
    \/ send_to_claude_agent(p)
    \/ send_to_claude_agent_insert(p)
    \/ send_to_claude_agent_touch(p)
    \/ get_claude_agent_status(p)
    \/ get_claude_agent_status_tasks(p)
    \/ list_claude_agents(p)
    \/ store_memory(p)
    \/ recall_memory(p)
    \/ get_system_toolkit(p)
    \/ get_callable_commands(p)
    \/ get_import_statements(p)
    \/ get_api_reference(p)
    \/ get_cli_reference(p)
    \/ get_cost_reference(p)
    \/ get_pipeline_reference(p)
    \/ lookup_data_path(p)

Next ==
    \E p \in Procs :
        \/ Request(p)
        \/ Dispatch(p)
        \/ Respond(p)
        \/ ToolStep(p)

Spec == Init /\ [][Next]_vars

(* ---------------------------------------------------------------------- *)
(* Properties                                                              *)
(* ---------------------------------------------------------------------- *)
Done(p) == inv[p].pc = "done"

InHandler(p) == inv[p].pc \in {"handler"} \cup Suspended

Envelope(p) == inv[p].out[1]

LastCall(p) == inv[p].calls[Len(inv[p].calls)]

(* The call did not succeed: error field, non-2xx status, or a throw. *)
Failed(c) == c.outcome \notin {"ok", "ok_empty"}

EnvelopeShape(e) ==
    /\ DOMAIN e \in {{"content"}, {"content", "isError"}}
    /\ Len(e.content) = 1
    /\ DOMAIN e.content[1] = {"type", "text"}
    /\ e.content[1].type = "text"
    /\ "isError" \in DOMAIN e => e.isError \in BOOLEAN

(* C1: every tool invocation, whatever its collaborators do (success,      *)
(* error field, thrown exception, missing configuration), returns exactly  *)
(* one envelope {content: [{type: 'text', text}], isError?}: no exception  *)
(* escapes a handler, a running handler has returned nothing yet and can   *)
(* always take its next step, a finished one has returned exactly once.    *)
C1_ExactlyOneEnvelope ==
    \A p \in Procs :
        /\ ~inv[p].escaped
        /\ InHandler(p) => Len(inv[p].out) = 0 /\ ENABLED ToolStep(p)
        /\ Done(p) => Len(inv[p].out) = 1 /\ EnvelopeShape(Envelope(p))

C1_Witness ==
    \E p \in Procs :
        /\ Done(p) /\ Len(inv[p].calls) = 2
        /\ LastCall(p).outcome = "throw_value"
        /\ Len(inv[p].out) = 1 /\ IsErrorEnv(Envelope(p))

(* C2: whenever an outbound call of an invocation fails (error field,      *)
(* non-2xx status or a throw), the invocation returns isError: true with a *)
(* text containing the word "Error".                                       *)
C2_FailureIsError ==
    \A p \in Procs :
        (Done(p) /\ \E i \in 1..Len(inv[p].calls) : Failed(inv[p].calls[i]))
            => IsErrorEnv(Envelope(p)) /\ ContainsWordError(TextOf(Envelope(p)))

CallBudget(tool) ==
    CASE tool = "get_current_time" -> 0
      [] tool \in {"switch_terminal_session", "close_terminal_session",
                   "start_claude_agent", "get_claude_agent_status"} -> 2
      [] tool = "send_to_claude_agent" -> 3
      [] OTHER -> 1

C4_AuthGate ==
    \A p \in Procs :
        config.apiSecret = Secret =>
            /\ inv[p].pc = "dispatch" => inv[p].cred = Secret
            /\ inv[p].pc = "unauthorized" =>
                   inv[p].http = 401 /\ inv[p].local.code = -32001

(* C5: with no secret configured every request is forwarded to tool        *)
(* dispatch, whatever credential it carries or omits; none is answered 401.*)
C5_OpenWhenUnset ==
    \A p \in Procs :
        config.apiSecret = Undefined =>
            inv[p].pc # "unauthorized" /\ inv[p].http # 401

C5_Witness ==
    \E p \in Procs :
        /\ config.apiSecret = Undefined
        /\ inv[p].pc = "dispatch" /\ inv[p].cred = "wrong"

(* C6: with the database URL or the service-role key unset, a database     *)
(* tool returns isError with "Error: Supabase credentials not configured"  *)
(* and issues no outbound call, nothing escapes, the tables are untouched, *)
(* get_current_time still succeeds and a toolkit tool whose fetch succeeds *)
(* still succeeds.                                                         *)
C6_ConfigurationError ==
    (~config.supabaseUrl \/ ~config.supabaseKey) =>
        /\ agent_memory \in {[k \in Keys |-> NoMemory], StoredMemory}
        /\ terminal_sessions \in {[i \in SessionIds |-> NoSession], StoredSessions}
        /\ voice_messages_tasks \in {<<>>, StoredTasks}
        /\ \A p \in Procs :
              /\ ~inv[p].escaped
              /\ inv[p].tool \in DatabaseTools =>
                    /\ Len(inv[p].calls) = 0
                    /\ inv[p].pc \notin Suspended
                    /\ Done(p) =>
                          /\ IsErrorEnv(Envelope(p))
                          /\ TextOf(Envelope(p)) = Template(
                                <<"Error", ": ", "Supabase credentials not configured">>)
              /\ (Done(p) /\ inv[p].tool = "get_current_time") => ~IsErrorEnv(Envelope(p))
              /\ (Done(p) /\ inv[p].tool \in ToolkitTools /\ LastCall(p).outcome = "ok")
                    => ~IsErrorEnv(Envelope(p))

C6_Witness ==
    \E p \in Procs :
        /\ config.supabaseUrl /\ ~config.supabaseKey
        /\ Done(p) /\ inv[p].tool = "store_memory" /\ IsErrorEnv(Envelope(p))

GenericTools == {"supabase_query", "supabase_insert", "supabase_update", "supabase_delete"}

(* The words between "Error" and ": " on a tool's error-field path. *)
Doing(tool) ==
    CASE tool = "run_terminal_command"    -> "queueing command"
      [] tool = "check_command_status"    -> "checking status"
      [] tool = "get_pending_commands"    -> "fetching pending commands"
      [] tool = "get_recent_commands"     -> "fetching recent commands"
      [] tool = "create_terminal_session" -> "creating session"
      [] tool = "list_terminal_sessions"  -> "listing sessions"
      [] tool = "switch_terminal_session" -> "switching session"
      [] tool = "close_terminal_session"  -> "closing session"
      [] tool = "start_claude_agent"      -> "creating Claude session"
      [] tool = "send_to_claude_agent"    -> "sending message"
      [] tool = "list_claude_agents"      -> "listing agents"
      [] tool = "store_memory"            -> "storing memory"
      [] tool = "recall_memory"           -> "recalling memory"
      [] tool = "get_system_toolkit"      -> "fetching toolkit"
      [] tool = "get_callable_commands"   -> "fetching commands"
      [] tool = "get_import_statements"   -> "fetching imports"
      [] tool = "get_api_reference"       -> "fetching API reference"
      [] tool = "get_cli_reference"       -> "fetching CLI reference"
      [] tool = "get_cost_reference"      -> "fetching cost reference"
      [] tool = "get_pipeline_reference"  -> "fetching pipeline reference"
      [] tool = "lookup_data_path"        -> "fetching data paths"
      [] OTHER -> ""

Messages ==
    {"boom", "fetch failed", "Unknown error", "Supabase credentials not configured",
     "HTTP 500", "Unexpected token < in JSON at position 0",
     "Cannot read properties of undefined",
     "JSON object requested, multiple (or no) rows returned",
     "duplicate key value violates unique constraint", "relation does not exist"}

C8_SuccessIsJSON ==
    \A p \in Procs :
        (Done(p) /\ ~IsErrorEnv(Envelope(p))) =>
            /\ "isError" \notin DOMAIN Envelope(p)
            /\ ParsesAsJSON(TextOf(Envelope(p)))

(* C8 amended: every success envelope has no isError flag and its text is  *)
(* the JSON encoding of the payload, except for get_callable_commands with *)
(* format 'markdown' (its default), whose text is "# Callable Commands"    *)
(* and a blank line followed by the fetched body, and for                  *)
(* get_import_statements with format 'typescript', whose text is the       *)
(* fetched body itself.                                                    *)
C8_SuccessText ==
    \A p \in Procs :
        (Done(p) /\ ~IsErrorEnv(Envelope(p))) =>
            LET t == TextOf(Envelope(p))
                tool == inv[p].tool
                a == inv[p].args
            IN  /\ "isError" \notin DOMAIN Envelope(p)
                /\ IF tool = "get_callable_commands" /\ Arg(a, "format", "markdown") = "markdown"
                   THEN \E body \in Bodies :
                            t = Template(<<"# Callable Commands\n\n", body>>)
                   ELSE IF tool = "get_import_statements" /\ Arg(a, "format", "json") = "typescript"
                   THEN \E body \in Bodies : t = Template(<<body>>)
                   ELSE t.fmt = "json"

C8_Witness ==
    \E p \in Procs :
        /\ Done(p) /\ inv[p].tool = "get_callable_commands" /\ ~Has(inv[p].args, "format")
        /\ ~IsErrorEnv(Envelope(p)) /\ ~ParsesAsJSON(TextOf(Envelope(p)))

(* C9: supabase_query with a table, a limit L and no filter issues exactly *)
(* one database call, a select on that table limited to L rows (100 when   *)
(* the limit is omitted) with no filter clause; on success count equals    *)
(* the number of rows in data, which is at most L.                         *)
C9_QueryNoFilter ==
    \A p \in Procs :
        (Done(p) /\ inv[p].tool = "supabase_query" /\ ~Has(inv[p].args, "filter")
                 /\ ~getSupabaseThrows) =>
            LET a == inv[p].args
                L == IF Has(a, "limit") THEN a.limit ELSE 100
                c == inv[p].calls[1]
                v == TextOf(Envelope(p)).value
            IN  /\ Len(inv[p].calls) = 1
                /\ c.kind = "db" /\ c.op = "select" /\ c.table = a.table
                /\ c.limit = L /\ Len(c.filters) = 0
                /\ ~IsErrorEnv(Envelope(p)) =>
                      /\ v.count = Len(v.data)
                      /\ Len(v.data) <= L

C9_Witness ==
    \E p \in Procs :
        /\ Done(p) /\ inv[p].tool = "supabase_query"
        /\ inv[p].args = [table |-> "agent_memory", limit |-> 1]
        /\ \A k \in Keys : agent_memory[k].present
        /\ ~IsErrorEnv(Envelope(p)) /\ TextOf(Envelope(p)).value.count = 1

(* C10: when recall_memory(key k), k non-empty and no category, succeeds   *)
(* after a successful store_memory(k, v) with no write to key k in         *)
(* between, its memories list holds an entry with key k and value v.       *)
C10_Step ==
    \A p \in Procs :
        LET a == inv[p].args
        IN  ( /\ Running(p, "recall_memory", "handler")
              /\ inv'[p].pc = "done" /\ ~IsErrorEnv(inv'[p].out[1])
              /\ Has(a, "key") /\ Truthy(a.key) /\ ~Has(a, "category")
              /\ lastStored[a.key] # "" ) =>
                LET memories == TextOf(inv'[p].out[1]).value.memories
                IN  \E i \in 1..Len(memories) :
                        /\ memories[i].key = a.key
                        /\ memories[i].value = lastStored[a.key]

C10_RoundTrip == [][C10_Step]_vars

C10_Witness ==
    \E p \in Procs :
        /\ Done(p) /\ inv[p].tool = "recall_memory" /\ ~IsErrorEnv(Envelope(p))
        /\ Has(inv[p].args, "key") /\ inv[p].args.key = "k2" /\ ~Has(inv[p].args, "category")
        /\ lastStored["k2"] = "v1"
        /\ \E i \in 1..Len(TextOf(Envelope(p)).value.memories) :
              TextOf(Envelope(p)).value.memories[i] =
                  [key |-> "k2", value |-> "v1", category |-> "general"]

(* The payload of a JSON text. *)
Payload(e) == TextOf(e).value

(* C11: get_current_time issues no outbound call and never returns        *)
(* isError; the unix field of its payload equals floor(t / 1000), where t  *)
(* is the millisecond timestamp parsed from the payload's own iso field.   *)
C11_TimeConsistent ==
    \A p \in Procs :
        inv[p].tool = "get_current_time" =>
            /\ inv[p].calls = <<>>
            /\ Done(p) =>
                  /\ ~IsErrorEnv(Envelope(p))
                  /\ TextOf(Envelope(p)).fmt = "json"
                  /\ Payload(Envelope(p)).unix =
                        DateParse(Payload(Envelope(p)).iso) \div 1000

C11_Witness ==
    \E p \in Procs :
        /\ Done(p) /\ inv[p].tool = "get_current_time"
        /\ Payload(Envelope(p)).iso.millis = 999
        /\ Payload(Envelope(p)).unix = 0

FilterTools == {"supabase_query", "supabase_update", "supabase_delete"}

(* C12: the one call of supabase_query, supabase_update and supabase_delete *)
(* carries exactly the column, operator and value of the filter argument,  *)
(* once, and no clause when supabase_query has no filter; the payload      *)
(* reports the rows the database matched with that filter, none dropped,   *)
(* and the rows the filter does not match are left as they were.           *)
C12_Step ==
    \A p \in Procs :
        (/\ inv[p].pc = "handler" /\ inv[p].tool \in FilterTools
         /\ inv'[p].pc = "done" /\ inv'[p].calls # <<>>) =>
            LET a == inv[p].args
                tool == inv[p].tool
                call == inv'[p].calls[1]
                given == IF Has(a, "filter") THEN <<a.filter>> ELSE <<>>
                rows == MemoryRows(agent_memory, given)
                hit == {k \in Keys : agent_memory[k].present
                                       /\ RowMatches(MemoryRow(agent_memory[k]), given)}
                payload == Payload(inv'[p].out[1])
            IN  /\ Len(inv'[p].calls) = 1
                /\ call.filters = given
                /\ call.outcome = "ok" =>
                      /\ \A k \in Keys \ hit : agent_memory'[k] = agent_memory[k]
                      /\ tool = "supabase_query" =>
                            /\ payload.data = Limit(rows, Arg(a, "limit", 100))
                            /\ agent_memory' = agent_memory
                      /\ tool = "supabase_update" =>
                            /\ payload.updated = Len(rows)
                            /\ \A k \in hit : agent_memory'[k].value = a.data.value
                      /\ tool = "supabase_delete" =>
                            /\ payload.deleted = Len(rows)
                            /\ \A k \in hit : ~agent_memory'[k].present

C12_FilterPassThrough == [][C12_Step]_vars

C12_Witness ==
    \E p \in Procs :
        /\ Done(p) /\ inv[p].tool = "supabase_update"
        /\ Len(inv[p].calls) = 1
        /\ LastCall(p).outcome = "ok"
        /\ LastCall(p).filters = <<inv[p].args.filter>>
        /\ ~IsErrorEnv(Envelope(p))
        /\ Payload(Envelope(p)).updated = 1

(* An input of a filtering tool that is complete but for its operator. *)
FilterInput(tool, operator) ==
    IF tool = "supabase_update"
    THEN [table |-> "agent_memory", data |-> [value |-> "v2"],
          filter |-> Clause("key", operator, "k1")]
    ELSE [table |-> "agent_memory", filter |-> Clause("key", operator, "k1")]

SomeOperators == {"eq", "neq", "gt", "gte", "lt", "lte", "like", "ilike", "regex", "in", ""}

(* C13 as claimed: the three filtering tools accept exactly the operators  *)
(* eq, neq, gt, gte, lt, lte, like and ilike.                              *)
C13_SameOperatorSet ==
    \A p \in Procs :
        (inv[p].tool \in FilterTools /\ Has(inv[p].args, "filter")) =>
            (inv[p].pc = "invalid" <=>
                inv[p].args.filter.operator \notin
                    {"eq", "neq", "gt", "gte", "lt", "lte", "like", "ilike"})

(* C13: supabase_query accepts exactly the operators eq, neq, gt, gte, lt, *)
(* lte, like and ilike; supabase_update and supabase_delete accept exactly *)
(* eq, neq, gt, gte, lt and lte, and reject like and ilike with the rest.  *)
C13_OperatorSets ==
    /\ \A tool \in FilterTools, operator \in SomeOperators :
          ValidInput(tool, FilterInput(tool, operator)) <=>
              operator \in (IF tool = "supabase_query"
                            THEN {"eq", "neq", "gt", "gte", "lt", "lte", "like", "ilike"}
                            ELSE {"eq", "neq", "gt", "gte", "lt", "lte"})
    /\ \A p \in Procs :
          (inv[p].tool \in FilterTools /\ Has(inv[p].args, "filter")) =>
              (inv[p].pc = "invalid" <=>
                  inv[p].args.filter.operator \notin
                      (IF inv[p].tool = "supabase_query"
                       THEN {"eq", "neq", "gt", "gte", "lt", "lte", "like", "ilike"}
                       ELSE {"eq", "neq", "gt", "gte", "lt", "lte"}))

C13_Witness ==
    \E p \in Procs :
        /\ inv[p].tool = "supabase_update" /\ inv[p].pc = "invalid"
        /\ inv[p].args.filter.operator = "like"

(* The required fields of each tool's schema, and those declared strings. *)
RequiredFields(tool) ==
    CASE tool = "supabase_query"  -> {"table"}
      [] tool = "supabase_insert" -> {"table", "data"}
      [] tool = "supabase_update" -> {"table", "data", "filter"}
      [] tool = "supabase_delete" -> {"table", "filter"}
      [] tool = "run_terminal_command" -> {"command"}
      [] tool = "check_command_status" -> {"task_id"}
      [] tool \in {"create_terminal_session", "start_claude_agent"} -> {"name"}
      [] tool \in {"switch_terminal_session", "close_terminal_session",
                   "get_claude_agent_status"} -> {"session_id"}
      [] tool = "send_to_claude_agent" -> {"session_id", "message"}
      [] tool = "store_memory" -> {"key", "value"}
      [] tool = "lookup_data_path" -> {"type"}
      [] OTHER -> {}

StringFields(tool) == RequiredFields(tool) \ {"data", "filter", "task_id"}

(* An input with a required field missing or a string field of another type. *)
Malformed(tool, a) ==
    \/ \E f \in RequiredFields(tool) : ~Has(a, f)
    \/ \E f \in StringFields(tool) : Has(a, f) /\ a[f] = NumberOnWire

(* C14: an input with a missing required field or a field of the wrong     *)
(* type is rejected at dispatch: the invocation issues no outbound call,   *)
(* returns no envelope of a handler, writes no external table, and its     *)
(* slot does nothing further but answer the request.                       *)
C14_Step ==
    \A p \in Procs :
        /\ (inv'[p].tool # "" /\ Malformed(inv'[p].tool, inv'[p].args)) =>
              /\ inv'[p].pc = "invalid"
              /\ inv'[p].calls = <<>> /\ inv'[p].out = <<>>
              /\ inv[p].pc # "invalid" => db' = db
        /\ inv[p].pc = "invalid" => inv'[p] \in {inv[p], Idle}

C14_ValidationFirst == [][C14_Step]_vars

C14_Witness ==
    \E p \in Procs :
        /\ inv[p].pc = "invalid" /\ inv[p].tool = "run_terminal_command"
        /\ inv[p].args = [command |-> NumberOnWire]
        /\ inv[p].calls = <<>>

(* C15 as claimed: within one invocation a failed outbound call is never   *)
(* issued again, and the failure is surfaced to the caller: the envelope   *)
(* of an invocation one of whose calls failed has isError.                 *)
C15_NoRetrySurfaced ==
    \A p \in Procs :
        Done(p) =>
            \A i \in 1..Len(inv[p].calls) :
                Failed(inv[p].calls[i]) =>
                    /\ \A j \in (i + 1)..Len(inv[p].calls) :
                          inv[p].calls[j] # inv[p].calls[i]
                    /\ IsErrorEnv(Envelope(p))

(* C16: no invocation leaves in-process state behind.  The environment    *)
(* configuration never changes; a step of one invocation changes no other  *)
(* invocation's state; every handler starts with no calls, no locals and   *)
(* no envelope, whatever ran before it; and once an invocation has         *)
(* answered, its slot holds nothing of it.                                 *)
C16_Step ==
    /\ config' = config
    /\ \A p \in Procs :
          /\ inv'[p] # inv[p] => \A q \in Procs \ {p} : inv'[q] = inv[q]
          /\ (inv'[p].pc = "handler" /\ inv[p].pc # "handler") =>
                /\ inv'[p].calls = <<>>
                /\ inv'[p].local = <<>>
                /\ inv'[p].out = <<>>
                /\ ~inv'[p].escaped
          /\ (inv[p].pc \in {"done", "invalid", "unauthorized"} /\ inv'[p] # inv[p]) =>
                inv'[p] = Idle
          /\ inv'[p].pc = "idle" => inv'[p] = Idle

C16_Stateless == [][C16_Step]_vars

C16_Witness ==
    /\ started = MaxInvocations
    /\ \A p \in Procs : inv[p] = Idle
    /\ Len(voice_messages_tasks) \in {1, Len(StoredTasks) + 1}
    /\ \E i \in SessionIds : terminal_sessions[i].present

(* C17 as claimed: overlapping invocations are isolated; in particular a   *)
(* get_claude_agent_status that overlaps a start_claude_agent never        *)
(* returns the new Claude session while that session's __START_CLAUDE__    *)
(* task has not yet been queued.                                           *)
C17_Isolation ==
    \A p \in Procs : \A q \in Procs \ {p} :
        ~ /\ Running(q, "start_claude_agent", "queue")
          /\ Done(p) /\ inv[p].tool = "get_claude_agent_status"
          /\ ~IsErrorEnv(Envelope(p))
          /\ inv[p].args.session_id = inv[q].local.sessionId
          /\ \A i \in 1..Len(voice_messages_tasks) :
                voice_messages_tasks[i].session_id # inv[q].local.sessionId

SupabaseUnset == ~config.supabaseUrl \/ ~config.supabaseKey

(* C18 as claimed: every setting has a hardcoded fallback, so a database   *)
(* tool invoked with the database endpoint or credential unset still       *)
(* proceeds to its database call instead of failing.                       *)
C18_EveryFallback ==
    \A p \in Procs :
        (SupabaseUnset /\ Done(p) /\ inv[p].tool \in DatabaseTools) =>
            /\ inv[p].calls # <<>>
            /\ TextOf(Envelope(p)) #
                  Template(<<"Error", ": ", "Supabase credentials not configured">>)

(* The paths the toolkit tools fetch under the base URL. *)
ToolkitPaths ==
    {"/api/toolkit", "/api/toolkit?section=cli", "/api/toolkit?section=apis",
     "/api/toolkit?section=costs", "/api/toolkit?section=data_paths",
     "/api/toolkit/commands", "/api/toolkit/commands?format=json",
     "/api/toolkit/imports", "/api/toolkit/imports?format=json"}

(* C18: only the toolkit base URL has a hardcoded fallback: with it unset  *)
(* every toolkit tool fetches under https://mahana-mapper.vercel.app and   *)
(* with it set under the configured URL.  The database endpoint and        *)
(* credential have none: with either unset a database tool issues no call  *)
(* and returns the configuration error.  The Redis URL has none either:    *)
(* unset, it is left out of the handler options, and tools run all the same. *)
C18_Fallbacks ==
    /\ "redisUrl" \in DOMAIN HandlerOptions <=> config.redisUrl # Undefined
    /\ config.redisUrl # Undefined => HandlerOptions.redisUrl = config.redisUrl
    /\ \A p \in Procs :
          /\ (Done(p) /\ inv[p].tool \in ToolkitTools) =>
                /\ Len(inv[p].calls) = 1
                /\ inv[p].calls[1].url \in
                      {(IF config.toolkitUrl = Undefined
                        THEN "https://mahana-mapper.vercel.app"
                        ELSE config.toolkitUrl) \o path : path \in ToolkitPaths}
                /\ inv[p].calls[1].outcome = "ok" => ~IsErrorEnv(Envelope(p))
          /\ (Done(p) /\ inv[p].tool \in DatabaseTools /\ SupabaseUnset) =>
                /\ inv[p].calls = <<>>
                /\ Envelope(p) = ErrorEnvelope(
                      Template(<<"Error", ": ", "Supabase credentials not configured">>))
          /\ (Done(p) /\ inv[p].tool = "get_current_time") => ~IsErrorEnv(Envelope(p))

C18_Witness ==
    \E p \in Procs :
        /\ config.toolkitUrl = Undefined /\ config.redisUrl = Undefined
        /\ Done(p) /\ inv[p].tool = "get_api_reference"
        /\ inv[p].calls[1].url = "https://mahana-mapper.vercel.app/api/toolkit?section=apis"
        /\ inv[p].calls[1].outcome = "ok"
        /\ ~IsErrorEnv(Envelope(p))

(* C19: a successful run_terminal_command adds exactly one row to          *)
(* voice_messages_tasks, with status 'pending' and command_text the        *)
(* command without its surrounding whitespace, and returns that row's id   *)
(* as task_id; no tool changes a row once queued; and check_command_status *)
(* of a queued task's id returns success with that row's command and       *)
(* status, so after run_terminal_command it returns the trimmed command    *)
(* and 'pending'.                                                          *)
C19_Step ==
    /\ Len(voice_messages_tasks') >= Len(voice_messages_tasks)
    /\ \A i \in 1..Len(voice_messages_tasks) :
          voice_messages_tasks'[i] = voice_messages_tasks[i]
    /\ \A p \in Procs :
          /\ (/\ Running(p, "run_terminal_command", "handler")
              /\ inv'[p].pc = "done" /\ inv'[p].calls # <<>>
              /\ inv'[p].calls[1].outcome = "ok") =>
                LET n == Len(voice_messages_tasks)
                    row == voice_messages_tasks'[n + 1]
                    command == inv[p].args.command
                    payload == Payload(inv'[p].out[1])
                IN  /\ Len(voice_messages_tasks') = n + 1
                    /\ row.status = "pending"
                    /\ row.command_text = (IF command = " ls " THEN "ls" ELSE command)
                    /\ \A i \in 1..n : voice_messages_tasks[i].id # row.id
                    /\ ~IsErrorEnv(inv'[p].out[1])
                    /\ payload.task_id = row.id
                    /\ payload.command = row.command_text
                    /\ payload.status = "pending"
          /\ (/\ Running(p, "check_command_status", "handler")
              /\ inv'[p].pc = "done" /\ inv'[p].calls # <<>>
              /\ inv'[p].calls[1].outcome = "ok") =>
                \A i \in 1..Len(voice_messages_tasks) :
                    voice_messages_tasks[i].id = inv[p].args.task_id =>
                        /\ ~IsErrorEnv(inv'[p].out[1])
                        /\ Payload(inv'[p].out[1]).success
                        /\ Payload(inv'[p].out[1]).task.id = inv[p].args.task_id
                        /\ Payload(inv'[p].out[1]).task.command =
                              voice_messages_tasks[i].command_text
                        /\ Payload(inv'[p].out[1]).task.status =
                              voice_messages_tasks[i].status

C19_QueueRoundTrip == [][C19_Step]_vars

C19_Witness ==
    \E p \in Procs :
        /\ Done(p) /\ inv[p].tool = "check_command_status"
        /\ ~IsErrorEnv(Envelope(p))
        /\ Len(voice_messages_tasks) = inv[p].args.task_id
        /\ voice_messages_tasks[Len(voice_messages_tasks)].command_text = "ls"
        /\ Payload(Envelope(p)).task.command = "ls"
        /\ Payload(Envelope(p)).task.status = "pending"

(* C20: get_pending_commands returns the task rows whose status is        *)
(* 'pending' and no other, oldest first, cut to limit rows (10 when limit  *)
(* is omitted), and its count is the number of rows it returns.            *)
C20_Step ==
    \A p \in Procs :
        (/\ Running(p, "get_pending_commands", "handler")
         /\ inv'[p].pc = "done" /\ inv'[p].calls # <<>>
         /\ inv'[p].calls[1].outcome = "ok") =>
            LET pending == SelectSeq(voice_messages_tasks,
                                     LAMBDA r : r.status = "pending")
                limit == IF Has(inv[p].args, "limit") THEN inv[p].args.limit ELSE 10
                payload == Payload(inv'[p].out[1])
                got == payload.pending_commands
            IN  /\ ~IsErrorEnv(inv'[p].out[1])
                /\ Len(got) = IF Len(pending) < limit THEN Len(pending) ELSE limit
                /\ payload.count = Len(got)
                /\ \A i \in 1..Len(got) :
                      /\ got[i].status = "pending"
                      /\ got[i].id = pending[i].id
                      /\ got[i].command_text = pending[i].command_text
                /\ \A i \in 1..Len(got) : \A j \in 1..Len(got) :
                      i < j => got[i].id < got[j].id

C20_PendingCommands == [][C20_Step]_vars

C20_Witness ==
    \E p \in Procs :
        /\ Done(p) /\ inv[p].tool = "get_pending_commands"
        /\ ~IsErrorEnv(Envelope(p))
        /\ ~Has(inv[p].args, "limit")
        /\ Len(voice_messages_tasks) = 3
        /\ Payload(Envelope(p)).count = 2
        /\ Payload(Envelope(p)).pending_commands[1].command_text = "pwd"
        /\ Payload(Envelope(p)).pending_commands[2].command_text = "date"

(* C21 as claimed: for every accepted status argument, the default 'all' *)
(* included, no task whose status is 'pending' is among the                *)
(* recent_commands that get_recent_commands returns.                       *)
C21_RecentExecutedOnly ==
    \A p \in Procs :
        (Done(p) /\ inv[p].tool = "get_recent_commands" /\ ~IsErrorEnv(Envelope(p))) =>
            \A i \in 1..Len(Payload(Envelope(p)).recent_commands) :
                Payload(Envelope(p)).recent_commands[i].status # "pending"

(* C22 as claimed: after a successful switch_terminal_session the session *)
(* switched to is the one focused session: no other terminal_sessions row  *)
(* has is_focused = true.                                                  *)
C22_SingleFocus ==
    \A p \in Procs :
        (Done(p) /\ inv[p].tool = "switch_terminal_session" /\ ~IsErrorEnv(Envelope(p))) =>
            \A i \in SessionIds :
                (terminal_sessions[i].present /\ terminal_sessions[i].is_focused) =>
                    i = inv[p].args.session_id

(* C23 as claimed: whenever start_claude_agent returns a success envelope *)
(* with session_id s, exactly one pending voice_messages_tasks row with    *)
(* command_text '__START_CLAUDE__:' + s and session_id s has been queued,  *)
(* also when the collaborator reports an error for the task insert.        *)
C23_StartWritesBoth ==
    \A p \in Procs :
        (Done(p) /\ inv[p].tool = "start_claude_agent" /\ ~IsErrorEnv(Envelope(p))) =>
            LET s == Payload(Envelope(p)).session_id
                queued == SelectSeq(voice_messages_tasks,
                              LAMBDA r : /\ r.command_text = "__START_CLAUDE__:" \o s
                                         /\ r.session_id = s
                                         /\ r.status = "pending")
            IN  /\ terminal_sessions[s].present
                /\ terminal_sessions[s].agent_type = "claude-code"
                /\ Len(queued) = 1

(* C24 as claimed: send_to_claude_agent inserts a message task only if the *)
(* terminal_sessions row it read for the given id has agent_type           *)
(* 'claude-code'.                                                          *)
C24_OnlyClaudeSessions ==
    \A p \in Procs :
        (inv[p].tool = "send_to_claude_agent" /\ Len(inv[p].calls) >= 2) =>
            inv[p].local.session.agent_type = "claude-code"

(* C25 as claimed: once close_terminal_session(s) has succeeded, a later   *)
(* send_to_claude_agent(s, message) queues no message task: no insert is   *)
(* issued for a session read with status 'closed'.                         *)
C25_NoSendAfterClose ==
    \A p \in Procs :
        (/\ inv[p].tool = "send_to_claude_agent" /\ Len(inv[p].calls) >= 2
         /\ \A q \in Procs : inv[q].tool # "close_terminal_session") =>
            inv[p].local.session.status # "closed"

(* C26: a session row is inserted with status 'pending'; no tool removes  *)
(* a session row; the only change of a row's status is                     *)
(* close_terminal_session of its id setting 'closed'; no tool sets         *)
(* 'active'; and a 'closed' session stays 'closed'.                        *)
C26_Step ==
    \A i \in SessionIds :
        LET old == terminal_sessions[i]
            new == terminal_sessions'[i]
        IN  /\ (~old.present /\ new.present) =>
                  /\ new.status = "pending"
                  /\ \E p \in Procs :
                        \/ Running(p, "create_terminal_session", "handler")
                        \/ Running(p, "start_claude_agent", "handler")
            /\ old.present =>
                  /\ new.present
                  /\ new.status # old.status =>
                        /\ new.status = "closed"
                        /\ \E p \in Procs :
                              /\ Running(p, "close_terminal_session", "handler")
                              /\ inv[p].args.session_id = i
                  /\ new.status = "active" => old.status = "active"
                  /\ old.status = "closed" => new.status = "closed"

C26_StatusLifecycle == [][C26_Step]_vars

C26_Witness ==
    /\ terminal_sessions["claude-1"].present
    /\ terminal_sessions["claude-1"].status = "closed"
    /\ terminal_sessions["claude-1"].is_focused
    /\ \A p \in Procs : inv[p].pc = "idle"

TwoStepTools ==
    {"switch_terminal_session", "close_terminal_session", "start_claude_agent"}

(* C27: in switch_terminal_session, close_terminal_session and             *)
(* start_claude_agent the terminal_sessions write is the first call and    *)
(* queues nothing; the voice_messages_tasks insert is issued only after    *)
(* that write answered without error; and when the write returns an error  *)
(* or throws, the tool returns isError after that one call and no task row *)
(* is queued.                                                              *)
C27_Step ==
    \A p \in Procs :
        (inv[p].tool \in TwoStepTools /\ inv'[p] # inv[p]) =>
            /\ inv[p].pc = "handler" =>
                  /\ voice_messages_tasks' = voice_messages_tasks
                  /\ Len(inv'[p].calls) <= 1
                  /\ \A c \in 1..Len(inv'[p].calls) :
                        /\ inv'[p].calls[c].table = "terminal_sessions"
                        /\ Failed(inv'[p].calls[c]) => inv'[p].pc = "done"
                  /\ inv'[p].pc \in {"done", "queue"}
                  /\ inv'[p].pc = "done" => IsErrorEnv(inv'[p].out[1])
                  /\ inv'[p].pc = "queue" => ~Failed(inv'[p].calls[1])
            /\ inv[p].pc = "queue" =>
                  /\ Len(inv[p].calls) = 1
                  /\ inv[p].calls[1].table = "terminal_sessions"
                  /\ inv[p].calls[1].outcome = "ok"
                  /\ Len(inv'[p].calls) = 2
                  /\ inv'[p].calls[2].table = "voice_messages_tasks"
                  /\ inv'[p].calls[2].op = "insert"
                  /\ terminal_sessions' = terminal_sessions

C27_WriteOrdering == [][C27_Step]_vars

C27_Witness ==
    \E p \in Procs :
        /\ Done(p) /\ inv[p].tool = "close_terminal_session"
        /\ Len(inv[p].calls) = 1
        /\ inv[p].calls[1].table = "terminal_sessions"
        /\ inv[p].calls[1].outcome = "error"
        /\ IsErrorEnv(Envelope(p))
        /\ voice_messages_tasks \in {<<>>, StoredTasks}

(* A step in which p's store_memory call succeeds. *)
StoreSucceeds(p) ==
    /\ Running(p, "store_memory", "handler")
    /\ inv'[p].pc = "done"
    /\ ~IsErrorEnv(inv'[p].out[1])

(* What a successful store_memory step of p does to agent_memory when the *)
(* row's category is `category`: the key's one row holds the call's key   *)
(* and value and that category, every other key keeps its row, and a      *)
(* repeat of a call whose row is already stored changes nothing.          *)
StoreEffect(p, category) ==
    LET a == inv[p].args
        row == [present |-> TRUE, key |-> a.key, value |-> a.value,
                category |-> category]
    IN  /\ agent_memory'[a.key] = row
        /\ \A k \in Keys \ {a.key} : agent_memory'[k] = agent_memory[k]
        /\ Len(MemoryRows(agent_memory', <<Clause("key", "eq", a.key)>>)) = 1
        /\ agent_memory[a.key] = row => agent_memory' = agent_memory

(* C28 as stated: a successful store_memory leaves one row per key with   *)
(* the call's value and the call's category, 'general' only when the call *)
(* gave no category.                                                      *)
C28_CategoryAsGivenStep ==
    \A p \in Procs :
        StoreSucceeds(p) =>
            StoreEffect(p, IF "category" \in DOMAIN inv[p].args
                           THEN inv[p].args.category ELSE "general")

C28_CategoryAsGiven == [][C28_CategoryAsGivenStep]_vars

(* C28: a successful store_memory leaves one row per key with the call's  *)
(* value and the call's category, 'general' when the call gave none or an *)
(* empty one; other keys are untouched and a repeated call changes        *)
(* nothing.                                                               *)
C28_Step ==
    \A p \in Procs :
        StoreSucceeds(p) =>
            StoreEffect(p, IF /\ "category" \in DOMAIN inv[p].args
                              /\ inv[p].args.category # ""
                           THEN inv[p].args.category ELSE "general")

C28_UpsertByKey == [][C28_Step]_vars

C28_Witness ==
    \E p \in Procs :
        /\ Done(p) /\ inv[p].tool = "store_memory" /\ ~IsErrorEnv(Envelope(p))
        /\ "category" \in DOMAIN inv[p].args
        /\ inv[p].args.category = ""
        /\ agent_memory["k2"] = [present |-> TRUE, key |-> "k2", value |-> "v2",
                                 category |-> "general"]

(* The tool and await at which a handler inserts into voice_messages_tasks. *)
TaskWriters ==
    {<<"run_terminal_command", "handler">>,
     <<"switch_terminal_session", "queue">>,
     <<"close_terminal_session", "queue">>,
     <<"start_claude_agent", "queue">>,
     <<"send_to_claude_agent", "insert">>}

(* C29: every write a tool other than the generic supabase tools makes to *)
(* voice_messages_tasks is an insert of one new row with status 'pending' *)
(* and no response; the only operations these tools issue on the table    *)
(* are insert and select, and no step changes or removes a row that is    *)
(* already there, whatever its status.                                    *)
C29_Step ==
    LET n == Len(voice_messages_tasks)
    IN  /\ Len(voice_messages_tasks') \in {n, n + 1}
        /\ \A i \in 1..n :
              /\ voice_messages_tasks'[i].status = voice_messages_tasks[i].status
              /\ voice_messages_tasks'[i].response_data =
                    voice_messages_tasks[i].response_data
              /\ voice_messages_tasks'[i] = voice_messages_tasks[i]
        /\ Len(voice_messages_tasks') = n + 1 =>
              /\ voice_messages_tasks'[n + 1].status = "pending"
              /\ voice_messages_tasks'[n + 1].response_data = Null
              /\ \A i \in 1..n :
                    voice_messages_tasks[i].id # voice_messages_tasks'[n + 1].id
              /\ \E p \in Procs :
                    /\ <<inv[p].tool, inv[p].pc>> \in TaskWriters
                    /\ inv'[p].calls # inv[p].calls
                    /\ inv'[p].calls[Len(inv'[p].calls)].op = "insert"
                    /\ inv'[p].calls[Len(inv'[p].calls)].table = "voice_messages_tasks"
        /\ \A p \in Procs :
              inv'[p].tool \notin GenericTools =>
                  \A c \in 1..Len(inv'[p].calls) :
                      (/\ inv'[p].calls[c].kind = "db"
                       /\ inv'[p].calls[c].table = "voice_messages_tasks") =>
                          inv'[p].calls[c].op \in {"insert", "select"}

C29_TasksInsertOnly == [][C29_Step]_vars

C29_Witness ==
    /\ Len(voice_messages_tasks) = 4
    /\ voice_messages_tasks[2].status = "completed"
    /\ voice_messages_tasks[2].response_data = "ok"
    /\ voice_messages_tasks[4].status = "pending"
    /\ voice_messages_tasks[4].command_text = "__SWITCH_SESSION__:term-1"
    /\ \A p \in Procs : inv[p].pc \in {"idle", "done"}

(* C30 as stated: whenever close_terminal_session's status update returns *)
(* no error, matched row or not, the tool returns a success envelope and   *)
(* has queued one pending '__CLOSE_SESSION__:' + session_id task; and      *)
(* switch_terminal_session for an id with no row returns isError after its *)
(* one session call, queueing nothing.                                     *)
C30_CloseQueuesTask ==
    \A p \in Procs :
        /\ (/\ Done(p) /\ inv[p].tool = "close_terminal_session"
            /\ inv[p].calls # <<>>
            /\ inv[p].calls[1].outcome = "ok") =>
              /\ ~IsErrorEnv(Envelope(p))
              /\ Len(inv[p].calls) = 2
              /\ inv[p].calls[2].outcome = "ok"
              /\ \E i \in 1..Len(voice_messages_tasks) :
                    /\ voice_messages_tasks[i].status = "pending"
                    /\ voice_messages_tasks[i].command_text =
                          "__CLOSE_SESSION__:" \o inv[p].args.session_id
        /\ (/\ Done(p) /\ inv[p].tool = "switch_terminal_session"
            /\ inv[p].calls # <<>>
            /\ inv[p].calls[1].outcome = "ok"
            /\ ~terminal_sessions[inv[p].args.session_id].present) =>
              /\ IsErrorEnv(Envelope(p))
              /\ Len(inv[p].calls) = 1

====
